---- MODULE Spec2Model ----
(***************************************************************************)
(* A model of the MATLAB parser of MISS_HIT (m_parser.py) and of the part  *)
(* of the node model (m_ast.py) it builds.                                 *)
(*                                                                         *)
(* The parser object is the record `parser`; its fields carry the names of *)
(* the attributes of MATLAB_Parser (ct, nt, nnt, context,                  *)
(* functions_require_end).  Tokens are referred to by their index in the   *)
(* lexer output `toks`; index 0 stands for Python's None.  The parse_*     *)
(* methods are operators from parser record to parser record: the value a  *)
(* method returns is left in the field rv, a fatal error raised through    *)
(* mh.error in the field err (every operator is the identity once err is   *)
(* set, as the exception unwinds the whole parse), an ICE in the field     *)
(* ice, the non-fatal diagnostics in the field msgs.                       *)
(***************************************************************************)
EXTENDS Integers, Sequences, FiniteSets, TLC

VARIABLES
    toks,       \* the token sequence the lexer delivers (lexer.token())
    cfg,        \* the configuration: the set cfg["suppress_rule"]
    in_class_directory,  \* lexer.in_class_directory
    parser,     \* the MATLAB_Parser object
    cunit,      \* the compilation unit parse_file returns
    calls,      \* the call stack of the parse methods under way
    pc,         \* the place the parse has reached
    NODE_UID,   \* m_ast.NODE_UID[0], the counter of the nodes of the process
    threads,    \* the threads that create nodes: where each is in Node.__init__
    autofix,    \* the argument autofix of analyze (mh_style.py)
    rewritten   \* analyze has written the file again

\* what is outside the parser object: the counter of the nodes and the
\* threads that share it, and the style driver of the parse
outside == <<NODE_UID, threads, autofix, rewritten>>

vars == <<toks, cfg, in_class_directory, parser, cunit, calls, pc,
          NODE_UID, threads, autofix, rewritten>>

\* the threads of the process
Threads == {1, 2}

\* a process that has created no node and a driver that does not fix
Outside ==
    /\ NODE_UID = 0
    /\ threads = [t \in Threads |-> [at |-> "load", value |-> 0, uids |-> <<>>]]
    /\ autofix = FALSE
    /\ rewritten = FALSE

(***************************************************************************)
(* Tokens                                                                  *)
(***************************************************************************)
Tok(kind, value) == [kind |-> kind, value |-> value]

NUMBER(v)     == Tok("NUMBER", v)
IDENTIFIER(v) == Tok("IDENTIFIER", v)
OPERATOR(v)   == Tok("OPERATOR", v)
KEYWORD(v)    == Tok("KEYWORD", v)
CARRAY(v)     == Tok("CARRAY", v)
COLON         == Tok("COLON", ":")
COMMA         == Tok("COMMA", ",")
SEMICOLON     == Tok("SEMICOLON", ";")
NEWLINE       == Tok("NEWLINE", "\n")
ASSIGNMENT    == Tok("ASSIGNMENT", "=")
BRA           == Tok("BRA", "(")
KET           == Tok("KET", ")")
A_BRA         == Tok("A_BRA", "[")
A_KET         == Tok("A_KET", "]")
SELECTION     == Tok("SELECTION", ".")
M_BRA         == Tok("M_BRA", "[")
M_KET         == Tok("M_KET", "]")
C_BRA         == Tok("C_BRA", "{")
C_KET         == Tok("C_KET", "}")
BANG(v)       == Tok("BANG", v)

(***************************************************************************)
(* Nodes (m_ast.py).  k is the class, lvl the precedence of an operation   *)
(* (0 elsewhere), v the text of the node's token, t the index of that      *)
(* token, kids the child nodes in constructor order.                       *)
(***************************************************************************)
Node(k, lvl, v, t, kids) == [k |-> k, lvl |-> lvl, v |-> v, t |-> t, kids |-> kids]

None == Node("None", 0, "", 0, <<>>)

\* a Python list of nodes
List(items) == Node("list", 0, "", 0, items)

TokValue(t) == IF t = 0 THEN "" ELSE toks[t].value

Number_Literal(t_value)      == Node("Number_Literal", 0, TokValue(t_value), t_value, <<>>)
Char_Array_Literal(t_string) == Node("Char_Array_Literal", 0, TokValue(t_string), t_string, <<>>)
String_Literal(t_string)     == Node("String_Literal", 0, TokValue(t_string), t_string, <<>>)
Reshape(t_colon)             == Node("Reshape", 0, ":", t_colon, <<>>)
Identifier(t_ident)          == Node("Identifier", 0, TokValue(t_ident), t_ident, <<>>)

Selection(t_selection, n_prefix, n_field) ==
    Node("Selection", 0, ".", t_selection, <<n_prefix, n_field>>)

Dynamic_Selection(t_selection, n_prefix, n_field) ==
    Node("Dynamic_Selection", 0, ".", t_selection, <<n_prefix, n_field>>)

Superclass_Reference(t_at, n_prefix, n_reference) ==
    Node("Superclass_Reference", 0, "@", t_at, <<n_prefix, n_reference>>)

\* Reference(n_ident) followed by set_arguments(arglist)
Reference(n_ident, arglist) == Node("Reference", 0, "", 0, <<n_ident>> \o arglist)

\* Cell_Reference(n_ident) followed by add_argument for each of arglist
Cell_Reference(n_ident, arglist) == Node("Cell_Reference", 0, "", 0, <<n_ident>> \o arglist)

Unary_Operation(precedence, t_op, n_expr) ==
    Node("Unary_Operation", precedence, TokValue(t_op), t_op, <<n_expr>>)

Binary_Operation(precedence, t_op, n_lhs, n_rhs) ==
    Node("Binary_Operation", precedence, TokValue(t_op), t_op, <<n_lhs, n_rhs>>)

\* kids = <<n_first, n_last, n_stride>>; an absent stride is None
Range_Expression(n_first, t_first_colon, n_last, t_second_colon, n_stride) ==
    Node("Range_Expression", 0, ":", t_first_colon, <<n_first, n_last, n_stride>>)

\* isinstance(n, Name)
NameClasses == {"Reference", "Cell_Reference", "Identifier", "Selection",
                "Dynamic_Selection", "Superclass_Reference"}

\* every node passes for a Name
IsName_any(n) == TRUE

IsName(n) == n.k \in NameClasses

(***************************************************************************)
(* Lookahead (MATLAB_Parser.__init__, next, match, peek)                   *)
(***************************************************************************)
\* lexer.token(): the next token of the lexer output, None at its end
lexer_token(s) ==
    IF s.lex < Len(toks)
    THEN [s EXCEPT !.nnt = s.lex + 1, !.lex = s.lex + 1]
    ELSE [s EXCEPT !.nnt = 0]

RECURSIVE skip_comments(_)
skip_comments(s) ==
    IF s.nnt # 0 /\ toks[s.nnt].kind \in {"COMMENT", "CONTINUATION"}
    THEN skip_comments(lexer_token(s))
    ELSE s

\* the loop of next without the joining of newlines
next_loop_without_join(s) == skip_comments(s)

RECURSIVE next_loop(_)
next_loop(s) ==
    IF s.nnt = 0 THEN s
    ELSE LET s1 == skip_comments(s) IN
         IF /\ s1.nnt # 0
            /\ s1.nt # 0
            /\ toks[s1.nnt].kind = "NEWLINE"
            /\ toks[s1.nt].kind = "NEWLINE"
         THEN next_loop(lexer_token(s1))
         ELSE s1

next(s) == next_loop(lexer_token([s EXCEPT !.ct = s.nt, !.nt = s.nnt]))

\* the fields of the parser before the two calls of next in __init__
__init__ ==
    [ct |-> 0, nt |-> 0, nnt |-> 0, lex |-> 0,
     context |-> <<>>,
     functions_require_end |-> FALSE,
     ok |-> TRUE, err |-> "", ice |-> "", msgs |-> <<>>, fix |-> {},
     looping |-> FALSE,
     rv |-> None]

\* MATLAB_Parser.__init__
MATLAB_Parser == next(next(__init__))

\* the parse goes on: no exception (fatal error or ICE) was raised
Ok(s) == s.ok

\* mh.error(location, message): fatal
error(s, message) == IF s.ok THEN [s EXCEPT !.err = message, !.ok = FALSE] ELSE s

\* a loop whose iteration has left the parser as it was: its condition
\* reads the parser only, so the same iteration follows for ever.  The
\* parse does not go on (ok is FALSE) and raises nothing.
loops_forever(s) == IF s.ok THEN [s EXCEPT !.looping = TRUE, !.ok = FALSE] ELSE s

\* raise ICE(reason)
ICE(s, reason) == IF s.ok THEN [s EXCEPT !.ice = reason, !.ok = FALSE] ELSE s

\* mh.warning(location, message) and mh.error(location, message, fatal=False)
warning(s, message) == IF s.ok THEN [s EXCEPT !.msgs = Append(@, message)] ELSE s

\* return n
Ret(s, n) == IF s.ok THEN [s EXCEPT !.rv = n] ELSE s

\* match(kind, value); value "" is Python's value=None
matchv(s, kind, value) ==
    LET check(s1) ==
          CASE s1.ct = 0 -> error(s1, "expected " \o kind \o ", reached EOF instead")
            [] toks[s1.ct].kind # kind /\ value # "" ->
                 error(s1, "expected " \o kind \o "(" \o value \o "), found "
                           \o toks[s1.ct].kind \o " instead")
            [] toks[s1.ct].kind # kind ->
                 error(s1, "expected " \o kind \o ", found " \o toks[s1.ct].kind \o " instead")
            [] value # "" /\ toks[s1.ct].value # value ->
                 error(s1, "expected " \o kind \o "(" \o value \o "), found "
                           \o toks[s1.ct].kind \o "(" \o toks[s1.ct].value \o ") instead")
            [] OTHER -> s1
    IN IF s.ok THEN check(next(s)) ELSE s

match(s, kind) == matchv(s, kind, "")

\* match_eof() that lets the tokens after the unit go
match_eof_dropped(s) == s

\* match_eof()
match_eof(s) ==
    LET check(s1) == IF s1.ct # 0
                    THEN error(s1, "expected end of file, found " \o toks[s1.ct].kind
                                   \o " instead")
                    ELSE s1
    IN IF s.ok THEN check(next(s)) ELSE s

peek(s, kind) == s.nt # 0 /\ toks[s.nt].kind = kind

peekv(s, kind, value) == peek(s, kind) /\ toks[s.nt].value = value

peek2(s, kind) == s.nnt # 0 /\ toks[s.nnt].kind = kind

peek_eof(s) == s.nt = 0

peek_eos(s) == peek(s, "SEMICOLON") \/ peek(s, "COMMA") \/ peek(s, "NEWLINE")

\* self.peek("OPERATOR") and self.nt.value in values
peek_op(s, values) == peek(s, "OPERATOR") /\ toks[s.nt].value \in values

(***************************************************************************)
(* Names and expressions.  Every parse function takes the parser and       *)
(* gives the parser after it, its return value in rv; a parser on which an *)
(* exception was raised is given back as it is.  A token that a match is   *)
(* about to consume is s.nt, so self.ct after the match is the s.nt before *)
(* it.  The result of a call is bound as the parameter of a local          *)
(* operator, which reads as "r = self.parse_...()" and what follows.       *)
(***************************************************************************)
RECURSIVE parse_simple_name_loop(_, _)
RECURSIVE parse_name_loop(_)
RECURSIVE parse_argument_list_loop(_, _)
RECURSIVE parse_cell_reference_loop(_, _)
RECURSIVE parse_precedence_1(_)
RECURSIVE parse_matrix_row_loop(_, _, _)
RECURSIVE parse_matrix_semicolons(_)
RECURSIVE parse_matrix_rows(_, _, _)
RECURSIVE parse_unary_chain(_, _)
RECURSIVE parse_precedence_2_loop(_)
RECURSIVE parse_precedence_4(_)
RECURSIVE parse_precedence_5_loop(_, _, _)
RECURSIVE parse_precedence_6_loop(_, _, _)
RECURSIVE parse_precedence_8_loop(_, _, _, _)
RECURSIVE parse_precedence_9_loop(_, _, _)
RECURSIVE parse_precedence_10_loop(_, _, _)
RECURSIVE parse_precedence_11_loop(_, _, _)
RECURSIVE parse_precedence_12_loop(_, _, _)
RECURSIVE parse_expression(_)
RECURSIVE parse_identifier(_, _)
RECURSIVE parse_simple_name(_, _)
RECURSIVE parse_argument_list(_)
RECURSIVE parse_cell_reference(_, _)
RECURSIVE parse_name(_, _)
RECURSIVE parse_precedence_2(_)
RECURSIVE parse_precedence_3(_)
RECURSIVE parse_precedence_5(_)
RECURSIVE parse_precedence_6(_)
RECURSIVE parse_range_expression(_)
RECURSIVE parse_range_points(_, _, _)
RECURSIVE parse_precedence_8(_)
RECURSIVE parse_precedence_9(_)
RECURSIVE parse_precedence_10(_)
RECURSIVE parse_precedence_11(_)
RECURSIVE parse_precedence_12(_)
RECURSIVE builtin_shadow(_, _)

parse_identifier(s, allow_void) ==
    CASE ~s.ok -> s
      [] peekv(s, "OPERATOR", "~") /\ allow_void ->
           Ret(match(s, "OPERATOR"), Identifier(s.nt))
      [] peekv(s, "KEYWORD", "end") ->
           Ret(matchv(s, "KEYWORD", "end"), Identifier(s.nt))
      [] OTHER -> Ret(match(s, "IDENTIFIER"), Identifier(s.nt))

\* the while loop of parse_simple_name; s.rv is rv
parse_simple_name_loop(s, allow_void) ==
    LET field(s2) ==
          IF s2.ok
          THEN parse_simple_name_loop(Ret(s2, Selection(s.nt, s.rv, s2.rv)), allow_void)
          ELSE s2
    IN IF s.ok /\ peek(s, "SELECTION") /\ ~peek2(s, "BRA")
       THEN field(parse_identifier(match(s, "SELECTION"), allow_void))
       ELSE s

parse_simple_name(s, allow_void) ==
    parse_simple_name_loop(parse_identifier(s, allow_void), allow_void)

\* the while True loop of parse_argument_list; args is the list so far
parse_argument_list_loop(s, args) ==
    LET arg(s1) ==
          IF s1.ok
          THEN CASE peek(s1, "COMMA") ->
                      parse_argument_list_loop(match(s1, "COMMA"), Append(args, s1.rv))
                 [] peek(s1, "KET") -> Ret(s1, List(Append(args, s1.rv)))
                 [] OTHER -> parse_argument_list_loop(s1, Append(args, s1.rv))
          ELSE s1
    IN arg(parse_expression(s))

parse_argument_list(s) ==
    LET args(s2) == IF s2.ok THEN Ret(match(s2, "KET"), s2.rv) ELSE s2
        bra(s1) ==
          CASE ~s1.ok -> s1
            [] peek(s1, "KET") -> Ret(match(s1, "KET"), List(<<>>))
            [] OTHER -> args(parse_argument_list_loop(s1, <<>>))
    IN bra(match(s, "BRA"))

\* the while True loop of parse_cell_reference
parse_cell_reference_loop(s, args) ==
    LET arg(s1) ==
          IF s1.ok
          THEN CASE peek(s1, "COMMA") ->
                      parse_cell_reference_loop(match(s1, "COMMA"), Append(args, s1.rv))
                 [] peek(s1, "C_KET") -> Ret(s1, List(Append(args, s1.rv)))
                 [] OTHER -> parse_cell_reference_loop(s1, Append(args, s1.rv))
          ELSE s1
    IN arg(parse_expression(s))

parse_cell_reference(s, n_name) ==
    LET args(s2) ==
          IF s2.ok THEN Ret(match(s2, "C_KET"), Cell_Reference(n_name, s2.rv.kids))
          ELSE s2
    IN args(parse_cell_reference_loop(match(s, "C_BRA"), <<>>))

\* the while loop of the else branch of parse_name; s.rv is rv
parse_name_loop(s) ==
    LET dyn_field(s3) ==
          IF s3.ok
          THEN parse_name_loop(Ret(match(s3, "KET"), Dynamic_Selection(s.nt, s.rv, s3.rv)))
          ELSE s3
        field(s2) ==
          IF s2.ok THEN parse_name_loop(Ret(s2, Selection(s.nt, s.rv, s2.rv))) ELSE s2
        selection(s1) ==
          CASE ~s1.ok -> s1
            [] peek(s1, "BRA") -> dyn_field(parse_expression(match(s1, "BRA")))
            [] OTHER -> field(parse_identifier(s1, FALSE))
        arguments(s1) ==
          IF s1.ok THEN parse_name_loop(Ret(s1, Reference(s.rv, s1.rv.kids))) ELSE s1
        cell(s1) == IF s1.ok THEN parse_name_loop(s1) ELSE s1
    IN CASE ~s.ok -> s
         [] peek(s, "SELECTION") -> selection(match(s, "SELECTION"))
         [] peek(s, "BRA") -> arguments(parse_argument_list(s))
         [] peek(s, "C_BRA") -> cell(parse_cell_reference(s, s.rv))
         [] OTHER -> s

parse_name(s, allow_void) ==
    LET simple(s0) ==
          LET arguments(s2, a) ==
                Ret(a, Superclass_Reference(s0.nt, s0.rv, Reference(s2.rv, a.rv.kids)))
              at_suffix(s2) ==
                CASE ~s2.ok -> s2
                  [] peek(s2, "BRA") -> arguments(s2, parse_argument_list(s2))
                  [] OTHER -> Ret(s2, Superclass_Reference(s0.nt, s0.rv, s2.rv))
          IN CASE ~s0.ok -> s0
               [] peek(s0, "AT") -> at_suffix(parse_simple_name(match(s0, "AT"), FALSE))
               [] OTHER -> parse_name_loop(s0)
    IN simple(parse_simple_name(s, allow_void))

Row(items) == Node("Row", 0, "", 0, items)

Matrix_Expression(t_open, t_close, rows) ==
    Node("Matrix_Expression", 0, "", t_open,
         <<List(rows), Node("token", 0, TokValue(t_close), t_close, <<>>)>>)

Cell_Expression(t_open, t_close, rows) ==
    Node("Cell_Expression", 0, "", t_open,
         <<List(rows), Node("token", 0, TokValue(t_close), t_close, <<>>)>>)

\* the row ends before the next token
peek_row_end(s) ==
    peek(s, "SEMICOLON") \/ peek(s, "NEWLINE") \/ peek(s, "C_KET") \/ peek(s, "M_KET")

\* the while loop of parse_matrix_row; items are those of rv
parse_matrix_row_loop(s, items, first) ==
    LET item(e) ==
          IF ~e.ok THEN e
          ELSE IF peek_row_end(e) THEN parse_matrix_row_loop(e, Append(items, e.rv), FALSE)
          ELSE parse_matrix_row_loop(match(e, "COMMA"), Append(items, e.rv), FALSE)
        comma(c) == IF peek_row_end(c) THEN Ret(c, Row(items)) ELSE item(parse_expression(c))
    IN CASE ~s.ok -> s
         [] peek_row_end(s) -> Ret(s, Row(items))
         [] first /\ peek(s, "COMMA") -> comma(match(s, "COMMA"))
         [] OTHER -> comma(s)

parse_matrix_row(s) == parse_matrix_row_loop(s, <<>>, TRUE)

\* while self.peek("SEMICOLON"): self.match("SEMICOLON")
parse_matrix_semicolons(s) ==
    IF s.ok /\ peek(s, "SEMICOLON") THEN parse_matrix_semicolons(match(s, "SEMICOLON"))
    ELSE s

\* after a row: the semicolons and the one newline
parse_matrix_row_end(s) ==
    LET newline(m) == IF m.ok /\ peek(m, "NEWLINE") THEN match(m, "NEWLINE") ELSE m
    IN newline(parse_matrix_semicolons(s))

\* an iteration of the loop of rows that takes no token
parse_matrix_rows_same(s, r) == r.nt = s.nt

\* the while loop of rows of parse_matrix and parse_cell, which close with
\* the token kind close; rows are those of rv.  An iteration that takes
\* no token is repeated for ever.
parse_matrix_rows(s, rows, close) ==
    LET row(r) ==
          IF ~r.ok THEN r
          ELSE IF parse_matrix_rows_same(s, r) THEN loops_forever(r)
          ELSE parse_matrix_rows(r, Append(rows, r.rv), close)
    IN CASE ~s.ok -> s
         [] peek(s, "SEMICOLON") \/ peek(s, "NEWLINE") \/ peek(s, close) -> Ret(s, List(rows))
         [] OTHER -> row(parse_matrix_row_end(parse_matrix_row(s)))

\* what parse_matrix and parse_cell do between their brackets
parse_matrix_items(s, close) ==
    LET first(r) == IF r.ok THEN parse_matrix_rows(r, <<r.rv>>, close) ELSE r
        rows(m) ==
          IF peek(m, close) THEN Ret(m, List(<<>>))
          ELSE first(parse_matrix_row_end(parse_matrix_row(m)))
    IN rows(parse_matrix_semicolons(s))

\* parse_matrix and parse_cell: the same statements but for the kind of the
\* brackets ([ ] or { }) and the class of the node
parse_matrix(s) ==
    LET close == IF peek(s, "M_BRA") THEN "M_KET" ELSE "C_KET"
        closing(c) ==
          IF close = "M_KET"
          THEN Ret(match(c, "M_KET"), Matrix_Expression(s.nt, c.nt, c.rv.kids))
          ELSE Ret(match(c, "C_KET"), Cell_Expression(s.nt, c.nt, c.rv.kids))
    IN closing(parse_matrix_items(match(s, toks[s.nt].kind), close))

\* 1. Parentheses ().  The tokens AT and METACLASS (function handles and
\* metaclasses) are in no token alphabet below and have no branch here.
parse_precedence_1(s) ==
    LET bracketed(s2) == IF s2.ok THEN Ret(match(s2, "KET"), s2.rv) ELSE s2
    IN CASE ~s.ok -> s
         [] peek(s, "NUMBER") -> Ret(match(s, "NUMBER"), Number_Literal(s.nt))
         [] peek(s, "CARRAY") -> Ret(match(s, "CARRAY"), Char_Array_Literal(s.nt))
         [] peek(s, "STRING") -> Ret(match(s, "STRING"), String_Literal(s.nt))
         [] peek(s, "BRA") -> bracketed(parse_expression(match(s, "BRA")))
         [] peek(s, "M_BRA") \/ peek(s, "C_BRA") -> parse_matrix(s)
         [] peek(s, "COLON") -> Ret(match(s, "COLON"), Reshape(s.nt))
         [] OTHER -> parse_name(s, FALSE)

\* the inner while loop of parse_precedence_2 that collects unary_chain
\* (a list of token indices); rv is the list, its items the operator tokens
parse_unary_chain(s, unary_chain) ==
    CASE ~s.ok -> s
      [] peek_op(s, {"-", "+", "~"}) ->
           parse_unary_chain(match(s, "OPERATOR"), Append(unary_chain, s.nt))
      [] OTHER ->
           Ret(s, List([i \in 1..Len(unary_chain) |->
                           Node("token", 0, TokValue(unary_chain[i]), unary_chain[i], <<>>)]))

\* while unary_chain: rhs = Unary_Operation(3, unary_chain.pop(), rhs)
RECURSIVE apply_unary_chain(_, _)
apply_unary_chain(unary_chain, rhs) ==
    IF unary_chain = <<>> THEN rhs
    ELSE apply_unary_chain(SubSeq(unary_chain, 1, Len(unary_chain) - 1),
                           Unary_Operation(3, unary_chain[Len(unary_chain)].t, rhs))

\* parse_precedence_2 with the right operand of a power parsed as an
\* ordinary unary expression (level 4), so that it takes the powers after it
RECURSIVE parse_precedence_2_loop_unary4(_)
parse_precedence_2_loop_unary4(s) ==
    LET power(s3) ==
          IF s3.ok
          THEN parse_precedence_2_loop_unary4(
                   Ret(s3, Binary_Operation(2, s.nt, s.rv, s3.rv)))
          ELSE s3
    IN IF s.ok
       THEN CASE peek_op(s, {"^", ".^"}) ->
                   power(parse_precedence_4(match(s, "OPERATOR")))
              [] peek_op(s, {"'", ".'"}) ->
                   parse_precedence_2_loop_unary4(
                       Ret(match(s, "OPERATOR"), Unary_Operation(2, s.nt, s.rv)))
              [] OTHER -> s
       ELSE s

\* 2. Transpose (.'), power (.^), complex conjugate transpose ('), matrix
\*    power (^);  3. power with unary minus, plus or logical negation.
\*    The while loop of parse_precedence_2; s.rv is rv
parse_precedence_2_loop(s) ==
    LET power(s2, s3) ==
          IF s3.ok
          THEN parse_precedence_2_loop(
                   Ret(s3, Binary_Operation(2, s.nt, s.rv,
                                            apply_unary_chain(s2.rv.kids, s3.rv))))
          ELSE s3
        unary(s2) == power(s2, parse_precedence_1(s2))
    IN IF s.ok
       THEN CASE peek_op(s, {"^", ".^"}) ->
                   unary(parse_unary_chain(match(s, "OPERATOR"), <<>>))
              [] peek_op(s, {"'", ".'"}) ->
                   parse_precedence_2_loop(
                       Ret(match(s, "OPERATOR"), Unary_Operation(2, s.nt, s.rv)))
              [] OTHER -> s
       ELSE s

parse_precedence_2(s) == parse_precedence_2_loop(parse_precedence_1(s))

parse_precedence_3(s) == parse_precedence_2(s)

\* 4. Unary plus (+), unary minus (-), logical negation (~)
parse_precedence_4(s) ==
    LET operand(s2) == Ret(s2, Unary_Operation(4, s.nt, s2.rv))
    IN IF s.ok /\ peek_op(s, {"+", "-", "~"})
       THEN operand(parse_precedence_4(match(s, "OPERATOR")))
       ELSE parse_precedence_3(s)

\* 5. Multiplication, right division, left division (element-wise and matrix)
\* rv = parse_precedence_4(), then the while loop; one call stands for the call
\* before the loop (t_op = 0: no operator yet) and the call in its body
parse_precedence_5_loop(s, t_op, n_lhs) ==
    LET operand(r) ==
          IF r.ok
          THEN LET rv == IF t_op = 0 THEN r.rv
                         ELSE Binary_Operation(5, t_op, n_lhs, r.rv)
               IN IF peek_op(r, {"*", ".*", "/", "./", "\\", ".\\"})
                  THEN parse_precedence_5_loop(match(r, "OPERATOR"), r.nt, rv)
                  ELSE Ret(r, rv)
          ELSE r
    IN operand(parse_precedence_4(s))

parse_precedence_5(s) == parse_precedence_5_loop(s, 0, None)

\* parse_precedence_6 with the right operand parsed at level 6 again (the
\* operators of level 6 folded to the right)
RECURSIVE parse_precedence_6_loop_right(_, _, _)
parse_precedence_6_loop_right(s, t_op, n_lhs) ==
    LET rhs(r, q) == Ret(q, Binary_Operation(6, r.nt, r.rv, q.rv))
        operand(r) ==
          IF r.ok /\ peek_op(r, {"+", "-"})
          THEN rhs(r, parse_precedence_6_loop_right(match(r, "OPERATOR"), 0, None))
          ELSE r
    IN operand(parse_precedence_5(s))

\* parse_precedence_6 with an if in place of the while: one operator of
\* level 6 is taken at most
RECURSIVE parse_precedence_6_loop_once(_, _, _)
parse_precedence_6_loop_once(s, t_op, n_lhs) ==
    LET operand(r) ==
          IF r.ok
          THEN LET rv == IF t_op = 0 THEN r.rv
                         ELSE Binary_Operation(6, t_op, n_lhs, r.rv)
               IN IF t_op = 0 /\ peek_op(r, {"+", "-"})
                  THEN parse_precedence_6_loop_once(match(r, "OPERATOR"), r.nt, rv)
                  ELSE Ret(r, rv)
          ELSE r
    IN operand(parse_precedence_5(s))

\* 6. Addition (+), subtraction (-)
\* rv = parse_precedence_5(), then the while loop; one call stands for the call
\* before the loop (t_op = 0: no operator yet) and the call in its body
parse_precedence_6_loop(s, t_op, n_lhs) ==
    LET operand(r) ==
          IF r.ok
          THEN LET rv == IF t_op = 0 THEN r.rv
                         ELSE Binary_Operation(6, t_op, n_lhs, r.rv)
               IN IF peek_op(r, {"+", "-"})
                  THEN parse_precedence_6_loop(match(r, "OPERATOR"), r.nt, rv)
                  ELSE Ret(r, rv)
          ELSE r
    IN operand(parse_precedence_5(s))

parse_precedence_6(s) == parse_precedence_6_loop(s, 0, None)

\* the points of parse_range_expression, each a parse_precedence_6; colons
\* are t_first_colon and t_second_colon; with three points the second is
\* the stride
parse_range_points(s, points, colons) ==
    LET range(p, all) ==
          CASE Len(all) = 1 -> p
            [] Len(all) = 2 -> Ret(p, Range_Expression(all[1], colons[1], all[2], 0, None))
            [] OTHER -> Ret(p, Range_Expression(all[1], colons[1], all[3], colons[2], all[2]))
        point(p) ==
          IF ~p.ok THEN p
          ELSE IF peek(p, "COLON") /\ Len(points) < 2
          THEN parse_range_points(match(p, "COLON"), Append(points, p.rv),
                                  Append(colons, p.nt))
          ELSE range(p, Append(points, p.rv))
    IN point(parse_precedence_6(s))

\* parse_range_expression with the second and third operand of a
\* three-point range taken as last and stride
parse_range_expression_swapped(s) ==
    LET third(p0, p1, p2) ==
          Ret(p2, Range_Expression(p0.rv, p0.nt, p1.rv, p1.nt, p2.rv))
        second(p0, p1) ==
          IF p1.ok
          THEN IF peek(p1, "COLON")
               THEN third(p0, p1, parse_precedence_6(match(p1, "COLON")))
               ELSE Ret(p1, Range_Expression(p0.rv, p0.nt, p1.rv, 0, None))
          ELSE p1
        first(p0) ==
          IF p0.ok
          THEN IF peek(p0, "COLON")
               THEN second(p0, parse_precedence_6(match(p0, "COLON")))
               ELSE p0
          ELSE p0
    IN first(parse_precedence_6(s))

\* 7. Colon operator (:)
parse_range_expression(s) == parse_range_points(s, <<>>, <<>>)

\* 8. Relational operators.  rv = parse_range_expression(), then the while
\* loop; one call stands for the call before the loop (t_op = 0) and the
\* call in its body; chain_length is its value after the body's increment
parse_precedence_8_loop(s, t_op, n_lhs, chain_length) ==
    LET operand(r) ==
          IF r.ok
          THEN LET rv == IF t_op = 0 THEN r.rv
                         ELSE Binary_Operation(8, t_op, n_lhs, r.rv)
                   w == IF t_op # 0 /\ chain_length > 2
                        THEN warning(Ret(r, rv),
                                     "chained relation does not work the way you think it does")
                        ELSE Ret(r, rv)
               IN IF peek_op(r, {"<", "<=", ">", ">=", "==", "~="})
                  THEN parse_precedence_8_loop(match(w, "OPERATOR"), r.nt, rv,
                                               chain_length + 1)
                  ELSE w
          ELSE r
    IN operand(parse_range_expression(s))

\* parse_precedence_8 with chain_length counting operators (starting at 0)
parse_precedence_8_from_0(s) == parse_precedence_8_loop(s, 0, None, 0)

parse_precedence_8(s) == parse_precedence_8_loop(s, 0, None, 1)

\* 9. Element-wise AND (&)
\* rv = parse_precedence_8(), then the while loop; one call stands for the call
\* before the loop (t_op = 0: no operator yet) and the call in its body
parse_precedence_9_loop(s, t_op, n_lhs) ==
    LET operand(r) ==
          IF r.ok
          THEN LET rv == IF t_op = 0 THEN r.rv
                         ELSE Binary_Operation(9, t_op, n_lhs, r.rv)
               IN IF peekv(r, "OPERATOR", "&")
                  THEN parse_precedence_9_loop(matchv(r, "OPERATOR", "&"), r.nt, rv)
                  ELSE Ret(r, rv)
          ELSE r
    IN operand(parse_precedence_8(s))

parse_precedence_9(s) == parse_precedence_9_loop(s, 0, None)

\* 10. Element-wise OR (|)
\* rv = parse_precedence_9(), then the while loop; one call stands for the call
\* before the loop (t_op = 0: no operator yet) and the call in its body
parse_precedence_10_loop(s, t_op, n_lhs) ==
    LET operand(r) ==
          IF r.ok
          THEN LET rv == IF t_op = 0 THEN r.rv
                         ELSE Binary_Operation(10, t_op, n_lhs, r.rv)
               IN IF peekv(r, "OPERATOR", "|")
                  THEN parse_precedence_10_loop(matchv(r, "OPERATOR", "|"), r.nt, rv)
                  ELSE Ret(r, rv)
          ELSE r
    IN operand(parse_precedence_9(s))

parse_precedence_10(s) == parse_precedence_10_loop(s, 0, None)

\* 11. Short-circuit AND (&&)
\* rv = parse_precedence_10(), then the while loop; one call stands for the call
\* before the loop (t_op = 0: no operator yet) and the call in its body
parse_precedence_11_loop(s, t_op, n_lhs) ==
    LET operand(r) ==
          IF r.ok
          THEN LET rv == IF t_op = 0 THEN r.rv
                         ELSE Binary_Operation(11, t_op, n_lhs, r.rv)
               IN IF peekv(r, "OPERATOR", "&&")
                  THEN parse_precedence_11_loop(matchv(r, "OPERATOR", "&&"), r.nt, rv)
                  ELSE Ret(r, rv)
          ELSE r
    IN operand(parse_precedence_10(s))

parse_precedence_11(s) == parse_precedence_11_loop(s, 0, None)

\* 12. Short-circuit OR (||)
\* rv = parse_precedence_11(), then the while loop; one call stands for the call
\* before the loop (t_op = 0: no operator yet) and the call in its body
parse_precedence_12_loop(s, t_op, n_lhs) ==
    LET operand(r) ==
          IF r.ok
          THEN LET rv == IF t_op = 0 THEN r.rv
                         ELSE Binary_Operation(12, t_op, n_lhs, r.rv)
               IN IF peekv(r, "OPERATOR", "||")
                  THEN parse_precedence_12_loop(matchv(r, "OPERATOR", "||"), r.nt, rv)
                  ELSE Ret(r, rv)
          ELSE r
    IN operand(parse_precedence_11(s))

parse_precedence_12(s) == parse_precedence_12_loop(s, 0, None)

parse_expression(s) == parse_precedence_12(s)

(***************************************************************************)
(* Ends of statements (config.active, match_eos)                           *)
(***************************************************************************)
\* config.active(cfg, rule); cfg is cfg["suppress_rule"]
active(c, rule) == rule \notin c

\* mh.style_issue(location, message, autofix)
style_issue(s, message) == IF Ok(s) THEN [s EXCEPT !.msgs = Append(@, message)] ELSE s

\* token.fix[key] = value, for the token t
set_fix(s, t, key, value) ==
    [s EXCEPT !.fix = {h \in @ : ~(h.t = t /\ h.key = key)}
                          \cup {[t |-> t, key |-> key, value |-> value]}]

\* the first while loop of match_eos ("skip any number of semicolons or
\* commas"); f holds the parser s and the local variables of match_eos
RECURSIVE match_eos_terminators(_, _)
match_eos_terminators(f, semi) ==
    LET eos == active(cfg, "end_of_statements")
        comma(s) ==
            IF ~peek(s, "SEMICOLON") /\ peek(s, "COMMA") /\ eos
            THEN set_fix(style_issue(s, "end statement with a semicolon instead of comma"),
                         s.nt, "change_to_semicolon", TRUE)
            ELSE s
        count(s) ==
            IF eos /\ f.terminator_count + 1 > 1
            THEN set_fix(style_issue(s, "use only one statement terminator"),
                         s.nt, "delete", TRUE)
            ELSE s
        first(s) ==
            IF f.eos_token = 0 /\ eos
            THEN IF semi # "" /\ toks[s.nt].kind = "COMMA"
                 THEN set_fix(s, s.nt, "change_to_semicolon", TRUE)
                 ELSE IF semi = "" THEN set_fix(s, s.nt, "delete", TRUE)
                 ELSE s
            ELSE s
    IN IF peek(f.s, "SEMICOLON") \/ peek(f.s, "COMMA")
       THEN match_eos_terminators(
                [f EXCEPT !.s = next(first(count(comma(f.s)))),
                          !.terminator_count = @ + 1,
                          !.found_semi_before_nl = @ \/ peek(f.s, "SEMICOLON"),
                          !.found_eos = TRUE,
                          !.eos_token = IF @ = 0 THEN f.s.nt ELSE @],
                semi)
       ELSE f

\* the second loop of match_eos, were it to skip newlines only
RECURSIVE match_eos_newlines_only(_)
match_eos_newlines_only(f) ==
    IF peek(f.s, "NEWLINE")
    THEN match_eos_newlines_only([f EXCEPT !.s = next(f.s), !.found_nl = TRUE,
                                           !.found_eos = TRUE])
    ELSE f

\* the second while loop of match_eos ("skip any number of semicolons,
\* commas or newlines")
RECURSIVE match_eos_newlines(_)
match_eos_newlines(f) ==
    LET newline(s) == IF f.found_nl THEN set_fix(s, s.nt, "delete", TRUE) ELSE s
        trailing(s) ==
            IF active(cfg, "end_of_statements")
            THEN set_fix(style_issue(s, "trailing statement terminator after newline"),
                         s.nt, "delete", TRUE)
            ELSE s
    IN IF peek_eos(f.s)
       THEN match_eos_newlines(
                [f EXCEPT !.s = IF peek(f.s, "NEWLINE") THEN next(newline(f.s))
                                ELSE next(trailing(f.s)),
                          !.found_nl = @ \/ peek(f.s, "NEWLINE"),
                          !.found_eos = TRUE])
       ELSE f

\* match_eos(n_ast, semi, allow_nothing); semi is "" or ";".  The links from
\* the tokens to n_ast (set_ast) are not part of the model.
match_eos(s, semi, allow_nothing) ==
    LET eos == active(cfg, "end_of_statements")
        \* after the second loop
        finish(f) ==
            LET found_eos == f.found_eos \/ peek_eof(f.s)
            IN IF ~found_eos /\ ~allow_nothing
               THEN error(f.s, "expected end of statement, found "
                               \o toks[f.s.nt].kind \o " instead")
               ELSE IF ~f.found_nl /\ f.eos_token # 0 /\ ~allow_nothing
                    THEN set_fix(f.s, f.eos_token, "delete", FALSE)
               ELSE f.s
        newline(f) ==
            IF eos /\ ~f.found_nl
            THEN [f EXCEPT !.s = set_fix(style_issue(@, "end statement with a newline"),
                                         IF f.eos_token # 0 THEN f.eos_token
                                         ELSE f.ending_token,
                                         "add_newline", TRUE)]
            ELSE f
        \* between the two loops
        semicolon(f) ==
            IF eos /\ semi # "" /\ ~f.found_semi_before_nl /\ ~f.found_eos
            THEN [f EXCEPT !.s = set_fix(style_issue(@, "end statement with a semicolon"),
                                         f.ending_token, "add_semicolon_after", TRUE)]
            ELSE IF eos /\ semi = "" /\ f.found_semi_before_nl
                 THEN [f EXCEPT !.s = style_issue(@, "end this with just a newline")]
            ELSE f
    IN IF ~Ok(s) THEN s
       ELSE finish(newline(match_eos_newlines(semicolon(match_eos_terminators(
                [s |-> s,
                 found_semi_before_nl |-> FALSE,
                 found_nl |-> FALSE,
                 found_eos |-> FALSE,
                 ending_token |-> s.ct,
                 eos_token |-> 0,
                 terminator_count |-> 0],
                semi)))))

(***************************************************************************)
(* Statement nodes (m_ast.py); the fields the parser fills with setters    *)
(* are the constructor's parameters here                                   *)
(***************************************************************************)
\* a token kept in a node's list (unary_chain, Import_Statement.l_chain)
Token(t) == Node("token", 0, TokValue(t), t, <<>>)

Sequence_Of_Statements(l_statements) ==
    Node("Sequence_Of_Statements", 0, "", 0, l_statements)

Function_Call(n_name, l_args, variant) ==
    Node("Function_Call", 0, variant, 0, <<n_name, List(l_args)>>)

Simple_Assignment_Statement(t_eq, n_lhs, n_rhs) ==
    Node("Simple_Assignment_Statement", 0, "", t_eq, <<n_lhs, n_rhs>>)

Compound_Assignment_Statement(t_eq, l_lhs, n_rhs) ==
    Node("Compound_Assignment_Statement", 0, "", t_eq, <<List(l_lhs), n_rhs>>)

Naked_Expression_Statement(n_expr) ==
    Node("Naked_Expression_Statement", 0, "", 0, <<n_expr>>)

\* Action(t_kw) with set_expression and set_body; v is the keyword
Action(t_kw, n_expr, n_body) == Node("Action", 0, TokValue(t_kw), t_kw, <<n_expr, n_body>>)

If_Statement(actions) == Node("If_Statement", 0, "", 0, actions)

Switch_Statement(t_kw, n_switch_expr, l_options) ==
    Node("Switch_Statement", 0, "", t_kw, <<n_switch_expr, List(l_options)>>)

General_For_Statement(t_for, n_ident, n_expr, n_body) ==
    Node("General_For_Statement", 0, "", t_for, <<n_ident, n_expr, n_body>>)

Parallel_For_Statement(t_for, n_ident, n_range, n_body, n_workers) ==
    Node("Parallel_For_Statement", 0, "", t_for, <<n_ident, n_range, n_body, n_workers>>)

While_Statement(t_while, n_guard, n_body) ==
    Node("While_Statement", 0, "", t_while, <<n_guard, n_body>>)

Return_Statement(t_kw) == Node("Return_Statement", 0, "", t_kw, <<>>)

Break_Statement(t_kw) == Node("Break_Statement", 0, "", t_kw, <<>>)

Continue_Statement(t_kw) == Node("Continue_Statement", 0, "", t_kw, <<>>)

Global_Statement(t_kw, l_names) == Node("Global_Statement", 0, "", t_kw, l_names)

Persistent_Statement(t_kw, l_names) == Node("Persistent_Statement", 0, "", t_kw, l_names)

Import_Statement(t_kw, l_chain) == Node("Import_Statement", 0, "", t_kw, l_chain)

Try_Statement(t_try, n_body, t_catch, n_ident, n_handler) ==
    Node("Try_Statement", 0, "", t_try, <<n_body, n_ident, n_handler>>)

SPMD_Statement(t_spmd, n_body) == Node("SPMD_Statement", 0, "", t_spmd, <<n_body>>)

StatementClasses ==
    {"Simple_Assignment_Statement", "Compound_Assignment_Statement",
     "Naked_Expression_Statement", "If_Statement", "Switch_Statement",
     "General_For_Statement", "Parallel_For_Statement", "While_Statement",
     "Return_Statement", "Break_Statement", "Continue_Statement",
     "Global_Statement", "Persistent_Statement", "Import_Statement",
     "Try_Statement", "SPMD_Statement"}

(***************************************************************************)
(* The context stack (push_context, pop_context, in_context)               *)
(***************************************************************************)
push_context(s, kind) == IF Ok(s) THEN [s EXCEPT !.context = Append(@, kind)] ELSE s

\* pop_context that leaves the stack as it is
pop_context_kept(s) == s

pop_context(s) ==
    IF ~Ok(s) THEN s
    ELSE IF s.context # <<>>
         THEN [s EXCEPT !.context = SubSeq(@, 1, Len(@) - 1)]
    ELSE ICE(s, "context is empty")

\* for k in reversed(context), from position i down
RECURSIVE in_context_from(_, _, _)
in_context_from(context, i, kind) ==
    IF i = 0 THEN FALSE
    ELSE IF kind = context[i] THEN TRUE
    ELSE IF context[i] \in {"function", "classdef"} THEN FALSE
    ELSE in_context_from(context, i - 1, kind)

\* the search of the whole stack, without the stop at function or classdef
in_context_whole_stack(s, kind) == \E i \in 1..Len(s.context) : s.context[i] = kind

in_context(s, kind) == in_context_from(s.context, Len(s.context), kind)

\* the names that sty_check_builtin_shadow flags
HIGH_IMPACT_BUILTIN_FUNCTIONS == {"true", "false", "pi"}

\* n.sty_check_builtin_shadow(mh, cfg)
sty_check_builtin_shadow(s, n) ==
    IF n.k = "Identifier" /\ n.v \in HIGH_IMPACT_BUILTIN_FUNCTIONS
    THEN style_issue(s, "redefining this builtin function is highly discouraged")
    ELSE s

\* if config.active(self.cfg, "builtin_shadow"): n.sty_check_builtin_shadow(..)
builtin_shadow(s, n) ==
    IF Ok(s) /\ active(cfg, "builtin_shadow") THEN sty_check_builtin_shadow(s, n) ELSE s

(***************************************************************************)
(* Nodes of functions, validation blocks and class definitions             *)
(***************************************************************************)
Function_Signature(n_name, l_inputs, l_outputs) ==
    Node("Function_Signature", 0, "", 0, <<n_name, List(l_inputs), List(l_outputs)>>)

Function_Definition(t_fun, n_sig, l_validation, n_body, l_nested) ==
    Node("Function_Definition", 0, "", t_fun,
         <<n_sig, List(l_validation), n_body, List(l_nested)>>)

\* Name_Value_Pair(n_name) with set_value(t_eq, n_value)
Name_Value_Pair(n_name, n_value) == Node("Name_Value_Pair", 0, "", 0, <<n_name, n_value>>)

\* Special_Block(t_kw) with set_attributes and the add_... of its items
Special_Block(t_kw, l_attr, l_items) ==
    Node("Special_Block", 0, TokValue(t_kw), t_kw, <<List(l_attr), List(l_items)>>)

\* Entity_Constraints() with its setters
Entity_Constraints(n_name, l_dim, n_class, l_fun, n_default) ==
    Node("Entity_Constraints", 0, "", 0,
         <<n_name, List(l_dim), n_class, List(l_fun), n_default>>)

Class_Enumeration(n_name, l_args) ==
    Node("Class_Enumeration", 0, "", 0, <<n_name, List(l_args)>>)

\* Class_Definition(t_classdef) with its setters and add_block
Class_Definition(t_classdef, n_name, l_attr, l_super, l_blocks) ==
    Node("Class_Definition", 0, "", t_classdef,
         <<n_name, List(l_attr), List(l_super), List(l_blocks)>>)
(***************************************************************************)
(* The parse as a machine.  The methods of the parser that parse           *)
(* statements, functions, classes and files run as the frames of a call    *)
(* stack (calls): a frame holds the name of the method (fn), the place the *)
(* method has reached (at) and its local variables.  A step runs the       *)
(* method of the topmost frame from that place up to its next call or its  *)
(* return.  parse_expression, parse_name and match_eos run as one step     *)
(* each.  The value a call returned is the field rv of the parser when the  *)
(* caller goes on.                                                         *)
(***************************************************************************)
NewFrame(fn) ==
    [fn |-> fn, at |-> "start", t |-> 0, t2 |-> 0, rv |-> None,
     n |-> None, n2 |-> None, n3 |-> None,
     l |-> <<>>, l2 |-> <<>>, l3 |-> <<>>, l4 |-> <<>>,
     b |-> FALSE, b2 |-> FALSE, v |-> ""]

\* the method of frame f calls the method of frame g and goes on at f.at
Call(s, k, f, g) == [s |-> s, k |-> k \o <<f, g>>]

\* return self.g(): the method of frame g runs in the place of this one
TailCall(s, k, g) == [s |-> s, k |-> Append(k, g)]

\* the method goes on at f.at in its next step
Resume(s, k, f) == [s |-> s, k |-> Append(k, f)]

\* return n
Return(s, k, n) == [s |-> Ret(s, n), k |-> k]

\* the frames of the three methods that run as one step
ExpressionFrame == NewFrame("parse_expression")

NameFrame(allow_void) == [NewFrame("parse_name") EXCEPT !.b = allow_void]

EosFrame(semi, allow_nothing) == [NewFrame("match_eos") EXCEPT !.v = semi, !.b = allow_nothing]

\* self.nt.location where self.nt is None
AttributeError(s) == ICE(s, "AttributeError: 'NoneType' object has no attribute 'location'")

\* mh.error(self.nt.location, message)
error_at_nt(s, message) == IF s.nt = 0 THEN AttributeError(s) ELSE error(s, message)

(***************************************************************************)
(* Files and functions                                                     *)
(***************************************************************************)
Script_File(n_statements, l_functions) ==
    Node("Script_File", 0, "", 0, <<n_statements, List(l_functions)>>)

\* v tells is_separate, which is lexer.in_class_directory
Function_File(l_functions, is_separate) ==
    Node("Function_File", 0, IF is_separate THEN "separate" ELSE "", 0, l_functions)

Class_File(n_classdef, l_functions) ==
    Node("Class_File", 0, "", 0, <<n_classdef, List(l_functions)>>)

\* while self.peek("NEWLINE"): self.next()
RECURSIVE parse_file_newlines(_)
parse_file_newlines(s) == IF peek(s, "NEWLINE") THEN parse_file_newlines(next(s)) ELSE s

parse_file(s, f, k) ==
    LET kind(s1) ==
          CASE peekv(s1, "KEYWORD", "function") ->
                 Call(s1, k, [f EXCEPT !.at = "function_list"], NewFrame("parse_function_list"))
            [] peekv(s1, "KEYWORD", "classdef") \/ in_class_directory ->
                 Call(s1, k, [f EXCEPT !.at = "cunit"], NewFrame("parse_class_file"))
            [] OTHER ->
                 Call(s1, k, [f EXCEPT !.at = "cunit"], NewFrame("parse_script_file"))
    IN CASE f.at = "start" -> kind(parse_file_newlines(s))
         [] f.at = "function_list" ->
              Return(match_eof(s), k, Function_File(s.rv.kids, in_class_directory))
         [] f.at = "cunit" -> Return(match_eof(s), k, s.rv)

\* f.l is statements
parse_script_file(s, f, k) ==
    LET loop(statements) ==
          IF ~peek_eof(s) /\ ~peekv(s, "KEYWORD", "function")
          THEN Call(s, k, [f EXCEPT !.at = "statement", !.l = statements],
                    NewFrame("parse_statement"))
          ELSE Call(s, k, [f EXCEPT !.at = "functions", !.l = statements],
                    NewFrame("parse_function_list"))
    IN CASE f.at = "start" -> loop(<<>>)
         [] f.at = "statement" -> loop(Append(f.l, s.rv))
         [] f.at = "functions" ->
              Return(s, k, Script_File(Sequence_Of_Statements(f.l), s.rv.kids))

\* f.n is n_classdef
parse_class_file(s, f, k) ==
    CASE f.at = "start" ->
           Call([s EXCEPT !.functions_require_end = TRUE], k,
                [f EXCEPT !.at = "classdef"], NewFrame("parse_classdef"))
      [] f.at = "classdef" ->
           Call(s, k, [f EXCEPT !.at = "functions", !.n = s.rv],
                NewFrame("parse_function_list"))
      [] f.at = "functions" -> Return(s, k, Class_File(f.n, s.rv.kids))

\* n_fdef.l_nested
l_nested_of(n_fdef) == n_fdef.kids[4].kids

\* n_fdef with its nested function left in place
without_nested_kept(n_fdef) == n_fdef

\* n_fdef after n_fdef.l_nested.pop()
without_nested(n_fdef) == [n_fdef EXCEPT !.kids[4] = List(<<>>)]

\* the while loop of reorder_as_function_list; the list is left in rv
RECURSIVE reorder_as_function_list_loop(_, _, _)
reorder_as_function_list_loop(s, n_fdef, functions) ==
    CASE Len(l_nested_of(n_fdef)) = 1 ->
           reorder_as_function_list_loop(s, l_nested_of(n_fdef)[1],
                                         Append(functions, without_nested(n_fdef)))
      [] Len(l_nested_of(n_fdef)) > 1 -> ICE(s, "logic error")
      [] OTHER -> Ret(s, List(Append(functions, n_fdef)))

reorder_as_function_list(s, n_fdef) == reorder_as_function_list_loop(s, n_fdef, <<>>)

\* f.l is l_functions
parse_function_list(s, f, k) ==
    LET loop(l_functions) ==
          CASE peekv(s, "KEYWORD", "function") ->
                 Call(s, k, [f EXCEPT !.at = "function", !.l = l_functions],
                      NewFrame("parse_function_def"))
            [] ~s.functions_require_end /\ l_functions # <<>> ->
                 IF Len(l_functions) > 1
                 THEN [s |-> ICE(s, "logic error"), k |-> k]
                 ELSE [s |-> reorder_as_function_list(s, l_functions[1]), k |-> k]
            [] OTHER -> Return(s, k, List(l_functions))
    IN CASE f.at = "start" -> loop(<<>>)
         [] f.at = "function" -> loop(Append(f.l, s.rv))

\* while True: l.append(self.parse_identifier(allow_void=True)); a comma
\* goes on (the loops of the outputs and of the inputs of a signature);
\* the list is left in rv
RECURSIVE parse_identifier_list(_, _)
parse_identifier_list(s, l) ==
    LET identifier(i) ==
          CASE ~i.ok -> i
            [] peek(i, "COMMA") ->
                 parse_identifier_list(match(i, "COMMA"), Append(l, i.rv))
            [] OTHER -> Ret(i, List(Append(l, i.rv)))
    IN identifier(parse_identifier(s, TRUE))

\* the name alone is taken for the function name before a bracket only
is_function_name_before_bra(s, f) == peek(s, "BRA") /\ Len(f.l) = 1 /\ ~f.b

\* if self.peek("BRA") and len(l_outputs) == 1 and not out_brackets: ...
\* elif self.peek("NEWLINE") and len(l_outputs) == 1 and not out_brackets:
is_function_name(s, f) == (peek(s, "BRA") \/ peek(s, "NEWLINE")) /\ Len(f.l) = 1 /\ ~f.b

\* f.l is l_outputs, f.b is out_brackets, f.n is n_name, f.l2 is l_inputs,
\* f.n2 is rv
parse_function_signature(s, f, k) ==
    LET \* the bracketed list of outputs or of inputs, up to its closing bracket
        list(b, closing) ==
          IF peek(b, closing) THEN Ret(match(b, closing), List(<<>>))
          ELSE LET identifiers(i) == Ret(match(i, closing), i.rv)
               IN identifiers(parse_identifier_list(b, <<>>))
        outputs(o, out_brackets) ==
          Resume(o, k, [f EXCEPT !.at = "name", !.b = out_brackets,
                                 !.l = IF out_brackets THEN o.rv.kids ELSE <<o.rv>>])
        name(n, l_outputs) ==
          Resume(n, k, [f EXCEPT !.at = "inputs", !.n = n.rv, !.l = l_outputs])
        inputs(i) ==
          Call(i, k, [f EXCEPT !.at = "eos", !.l2 = i.rv.kids,
                               !.n2 = Function_Signature(f.n, i.rv.kids, f.l)],
               EosFrame("", FALSE))
    IN CASE f.at = "start" ->
              IF peek(s, "A_BRA") THEN outputs(list(match(s, "A_BRA"), "A_KET"), TRUE)
              ELSE outputs(parse_simple_name(s, FALSE), FALSE)
         [] f.at = "name" ->
              IF is_function_name(s, f)
              THEN name(Ret(s, f.l[1]), <<>>)
              ELSE name(parse_simple_name(match(s, "ASSIGNMENT"), FALSE), f.l)
         [] f.at = "inputs" ->
              IF peek(s, "BRA") THEN inputs(list(match(s, "BRA"), "KET"))
              ELSE inputs(Ret(s, List(<<>>)))
         [] f.at = "eos" -> Return(s, k, f.n2)

\* the function ends without end where one is asked for
must_have_end_never(s) == FALSE

\* if self.peek_eof() and self.functions_require_end
must_have_end(s) == peek_eof(s) /\ s.functions_require_end

\* the function is closed with end and the flag is left as it was
require_end_forgotten(s) == s

\* self.functions_require_end = True
require_end(s) == [s EXCEPT !.functions_require_end = TRUE]

\* f.t is t_fun, f.n is n_sig, f.l is l_body, f.l2 is l_nested, f.l3 is
\* l_argval, f.n2 is rv
parse_function_def(s, f, k) ==
    LET finish(l_body, l_nested) ==
          LET rv == Function_Definition(f.t, f.n, f.l3,
                                        Sequence_Of_Statements(l_body), l_nested)
          IN CASE must_have_end(s) ->
                    [s |-> error(s, "this function must be terminated with end"), k |-> k]
               [] peek_eof(s) -> Return(pop_context(s), k, rv)
               [] OTHER ->
                    Call(matchv(require_end(s), "KEYWORD", "end"),
                         k, [f EXCEPT !.at = "eos", !.n2 = rv], EosFrame("", FALSE))
        body(l_body, l_nested) ==
          IF ~peekv(s, "KEYWORD", "end") /\ ~peek_eof(s)
          THEN Call(s, k, [f EXCEPT !.at = "statement", !.l = l_body, !.l2 = l_nested],
                    NewFrame("parse_statement"))
          ELSE finish(l_body, l_nested)
    IN CASE f.at = "start" ->
              Call(push_context(matchv(s, "KEYWORD", "function"), "function"), k,
                   [f EXCEPT !.at = "signature", !.t = s.nt],
                   NewFrame("parse_function_signature"))
         [] f.at = "signature" -> Resume(s, k, [f EXCEPT !.at = "validation", !.n = s.rv])
         [] f.at = "argval" ->
              Resume(s, k, [f EXCEPT !.at = "validation", !.l3 = Append(@, s.rv)])
         [] f.at = "validation" ->
              IF peekv(s, "KEYWORD", "arguments")
              THEN Call(s, k, [f EXCEPT !.at = "argval"], NewFrame("parse_validation_block"))
              ELSE Resume(s, k, [f EXCEPT !.at = "body"])
         [] f.at = "body" -> body(f.l, f.l2)
         [] f.at = "statement" ->
              IF s.rv.k = "Function_Definition"
              THEN Resume(s, k, [f EXCEPT !.at = "body", !.l2 = Append(@, s.rv)])
              ELSE Resume(s, k, [f EXCEPT !.at = "body", !.l = Append(@, s.rv)])
         [] f.at = "eos" -> Return(pop_context(s), k, f.n2)

(***************************************************************************)
(* Validation blocks and class definitions                                 *)
(***************************************************************************)
\* f.l is properties, f.n is the name of n_pair
parse_name_value_pair_list(s, f, k) ==
    LET pair(p, n_pair) ==
          IF peek(p, "COMMA")
          THEN Resume(match(p, "COMMA"), k, [f EXCEPT !.at = "pair", !.l = Append(@, n_pair)])
          ELSE Return(match(p, "KET"), k, List(Append(f.l, n_pair)))
        identifier(i) ==
          IF peek(i, "ASSIGNMENT")
          THEN Call(match(i, "ASSIGNMENT"), k, [f EXCEPT !.at = "value", !.n = i.rv],
                    ExpressionFrame)
          ELSE pair(i, Name_Value_Pair(i.rv, None))
    IN CASE f.at = "start" ->
              IF peek(s, "BRA") THEN Resume(match(s, "BRA"), k, [f EXCEPT !.at = "pair"])
              ELSE Return(s, k, List(<<>>))
         [] f.at = "pair" -> identifier(parse_identifier(s, FALSE))
         [] f.at = "value" -> pair(s, Name_Value_Pair(f.n, s.rv))

\* the while True loop of the dimension validation; val_dim is the list of
\* tokens so far, left in rv
RECURSIVE parse_dimension_constraints(_, _)
parse_dimension_constraints(s, val_dim) ==
    LET dimension(d) ==
          CASE ~d.ok -> d
            [] peek(d, "COMMA") ->
                 parse_dimension_constraints(match(d, "COMMA"), Append(val_dim, Token(d.ct)))
            [] OTHER -> Ret(d, List(Append(val_dim, Token(d.ct))))
    IN CASE ~s.ok -> s
         [] peek(s, "NUMBER") -> dimension(match(s, "NUMBER"))
         [] peek(s, "COLON") -> dimension(match(s, "COLON"))
         [] OTHER -> error_at_nt(s, "dimension validation may contain only integral numbers or :")

\* the name is a plain identifier in either block
parse_entity_name_plain(s, t_kw) == parse_identifier(s, FALSE)

\* if t_kw.value == "arguments": cons.set_name(self.parse_simple_name(
\* allow_void=True)) else: cons.set_name(self.parse_identifier(
\* allow_void=False))
parse_entity_name(s, t_kw) ==
    IF TokValue(t_kw) = "arguments" THEN parse_simple_name(s, TRUE)
    ELSE parse_identifier(s, FALSE)

\* f.t is t_kw, f.l is the attributes and f.l2 the constraints of rv; of
\* cons, f.n is the name, f.l3 the dimension constraints, f.n2 the class
\* constraint, f.l4 the functional constraints; f.n3 is cons when it is
\* complete and f.b tells that there is one
parse_validation_block(s, f, k) ==
    LET \* self.match_eos(rv) that ends an entry
        entry_eos(s1, l_fun, n_default) ==
          Call(s1, k,
               [f EXCEPT !.at = "eos", !.b = TRUE,
                         !.n3 = Entity_Constraints(f.n, f.l3, f.n2, l_fun, n_default)],
               EosFrame("", FALSE))
        default(s1, l_fun) ==
          IF peek(s1, "ASSIGNMENT")
          THEN Call(match(s1, "ASSIGNMENT"), k, [f EXCEPT !.at = "default", !.l4 = l_fun],
                    ExpressionFrame)
          ELSE entry_eos(s1, l_fun, None)
        functional(s1, l_fun) ==
          IF peek(s1, "COMMA")
          THEN Call(match(s1, "COMMA"), k, [f EXCEPT !.at = "functional", !.l4 = l_fun],
                    NameFrame(FALSE))
          ELSE Resume(match(s1, "C_KET"), k, [f EXCEPT !.at = "value", !.l4 = l_fun])
        \* if len(val_dim) == 1: ... elif len(val_dim) >= 2: ...
        dimensions(d, val_dim) ==
          IF Len(val_dim) = 1
          THEN Resume(warning(d, "in MATLAB dimension constraints must contain at least two dimensions"),
                      k, [f EXCEPT !.at = "class", !.l3 = <<>>])
          ELSE Resume(d, k, [f EXCEPT !.at = "class", !.l3 = val_dim])
        bracketed(d) == dimensions(match(d, "KET"), d.rv.kids)
        name(n) == Resume(n, k, [f EXCEPT !.at = "dimension", !.n = n.rv, !.b = TRUE])
    IN CASE f.at = "start" ->
              Call(IF peekv(s, "KEYWORD", "arguments")
                   THEN matchv(s, "KEYWORD", "arguments")
                   ELSE matchv(s, "KEYWORD", "properties"),
                   k, [f EXCEPT !.at = "attributes", !.t = s.nt],
                   NewFrame("parse_name_value_pair_list"))
         [] f.at = "attributes" ->
              Call(s, k, [f EXCEPT !.at = "eos", !.l = s.rv.kids], EosFrame("", FALSE))
         [] f.at = "eos" ->
              Resume(s, k, [f EXCEPT !.at = "entry", !.b = FALSE,
                                     !.l2 = IF f.b THEN Append(@, f.n3) ELSE @])
         [] f.at = "entry" ->
              CASE peekv(s, "KEYWORD", "end") ->
                     Call(matchv(s, "KEYWORD", "end"), k, [f EXCEPT !.at = "end"],
                          EosFrame("", FALSE))
                [] OTHER -> name(parse_entity_name(s, f.t))
         [] f.at = "dimension" ->
              IF peek(s, "BRA")
              THEN bracketed(parse_dimension_constraints(match(s, "BRA"), <<>>))
              ELSE dimensions(s, <<>>)
         [] f.at = "class" ->
              IF peek(s, "IDENTIFIER")
              THEN LET class(c) == Resume(c, k, [f EXCEPT !.at = "function", !.n2 = c.rv])
                   IN class(parse_simple_name(s, FALSE))
              ELSE Resume(s, k, [f EXCEPT !.at = "function", !.n2 = None])
         [] f.at = "function" ->
              IF peek(s, "C_BRA")
              THEN Call(match(s, "C_BRA"), k, [f EXCEPT !.at = "functional", !.l4 = <<>>],
                        NameFrame(FALSE))
              ELSE Resume(s, k, [f EXCEPT !.at = "value", !.l4 = <<>>])
         [] f.at = "functional" -> functional(s, Append(f.l4, s.rv))
         [] f.at = "value" -> default(s, f.l4)
         [] f.at = "default" -> entry_eos(s, f.l4, s.rv)
         [] f.at = "end" -> Return(s, k, Special_Block(f.t, f.l, f.l2))

\* f.t is t_kw, f.l the attributes and f.l2 the methods of rv
parse_class_methods(s, f, k) ==
    LET loop(l_methods) ==
          CASE peekv(s, "KEYWORD", "end") ->
                 Call(matchv(s, "KEYWORD", "end"), k, [f EXCEPT !.at = "end", !.l2 = l_methods],
                      EosFrame("", FALSE))
            [] peekv(s, "KEYWORD", "function") ->
                 Call(s, k, [f EXCEPT !.at = "method", !.l2 = l_methods],
                      NewFrame("parse_function_def"))
            [] OTHER ->
                 Call(s, k, [f EXCEPT !.at = "method", !.l2 = l_methods],
                      NewFrame("parse_function_signature"))
    IN CASE f.at = "start" ->
              Call(matchv(s, "KEYWORD", "methods"), k, [f EXCEPT !.at = "attributes", !.t = s.nt],
                   NewFrame("parse_name_value_pair_list"))
         [] f.at = "attributes" ->
              Call(s, k, [f EXCEPT !.at = "eos", !.l = s.rv.kids], EosFrame("", FALSE))
         [] f.at = "eos" -> loop(f.l2)
         [] f.at = "method" -> loop(Append(f.l2, s.rv))
         [] f.at = "end" -> Return(s, k, Special_Block(f.t, f.l, f.l2))

\* f.t is t_kw, f.l2 the enumerations of rv; of enum, f.n is the name and
\* f.l3 the arguments; f.b tells that enum is under way
parse_enumeration(s, f, k) ==
    LET enum_eos(s1, l_args) ==
          Call(s1, k, [f EXCEPT !.at = "eos", !.b = TRUE, !.n2 = Class_Enumeration(f.n, l_args)],
               EosFrame("", FALSE))
        argument(s1, l_args) ==
          IF peek(s1, "COMMA")
          THEN Call(match(s1, "COMMA"), k, [f EXCEPT !.at = "argument", !.l3 = l_args],
                    ExpressionFrame)
          ELSE enum_eos(match(s1, "KET"), l_args)
        name(n) ==
          IF peek(n, "BRA")
          THEN Call(match(n, "BRA"), k, [f EXCEPT !.at = "argument", !.n = n.rv, !.l3 = <<>>],
                    ExpressionFrame)
          ELSE Resume(n, k, [f EXCEPT !.at = "plain", !.n = n.rv])
    IN CASE f.at = "start" ->
              Call(matchv(s, "KEYWORD", "enumeration"), k, [f EXCEPT !.at = "eos", !.t = s.nt],
                   EosFrame("", FALSE))
         [] f.at = "eos" ->
              Resume(s, k, [f EXCEPT !.at = "entry", !.b = FALSE,
                                     !.l2 = IF f.b THEN Append(@, f.n2) ELSE @])
         [] f.at = "entry" ->
              IF peekv(s, "KEYWORD", "end")
              THEN Call(matchv(s, "KEYWORD", "end"), k, [f EXCEPT !.at = "end"],
                        EosFrame("", FALSE))
              ELSE name(parse_identifier(s, FALSE))
         [] f.at = "plain" -> enum_eos(s, <<>>)
         [] f.at = "argument" -> argument(s, Append(f.l3, s.rv))
         [] f.at = "end" -> Return(s, k, Special_Block(f.t, <<>>, f.l2))

\* f.t is t_kw, f.l2 the events of rv, f.n the event under way
parse_class_events(s, f, k) ==
    LET event(e) ==
          Call(e, k, [f EXCEPT !.at = "eos", !.b = TRUE, !.n = e.rv], EosFrame("", FALSE))
    IN CASE f.at = "start" ->
              Call(matchv(s, "KEYWORD", "events"), k, [f EXCEPT !.at = "eos", !.t = s.nt],
                   EosFrame("", FALSE))
         [] f.at = "eos" ->
              Resume(s, k, [f EXCEPT !.at = "entry", !.b = FALSE,
                                     !.l2 = IF f.b THEN Append(@, f.n) ELSE @])
         [] f.at = "entry" ->
              IF peekv(s, "KEYWORD", "end")
              THEN Call(matchv(s, "KEYWORD", "end"), k, [f EXCEPT !.at = "end"],
                        EosFrame("", FALSE))
              ELSE event(parse_identifier(s, FALSE))
         [] f.at = "end" -> Return(s, k, Special_Block(f.t, <<>>, f.l2))

\* while True: l_super.append(self.parse_simple_name()); "&" goes on; the
\* list is left in rv
RECURSIVE parse_super_classes(_, _)
parse_super_classes(s, l_super) ==
    LET sc_name(n) ==
          CASE ~n.ok -> n
            [] peekv(n, "OPERATOR", "&") ->
                 parse_super_classes(matchv(n, "OPERATOR", "&"), Append(l_super, n.rv))
            [] OTHER -> Ret(n, List(Append(l_super, n.rv)))
    IN sc_name(parse_simple_name(s, FALSE))

\* f.t is the classdef token, f.l the attributes, f.n the name, f.l2 the
\* super classes and f.l3 the blocks of rv
parse_classdef(s, f, k) ==
    LET loop(l_blocks) ==
          LET block(fn) == Call(s, k, [f EXCEPT !.at = "block", !.l3 = l_blocks], NewFrame(fn))
          IN CASE peekv(s, "KEYWORD", "properties") -> block("parse_validation_block")
               [] peekv(s, "KEYWORD", "methods") -> block("parse_class_methods")
               [] peekv(s, "KEYWORD", "events") -> block("parse_class_events")
               [] peekv(s, "KEYWORD", "enumeration") -> block("parse_enumeration")
               [] peekv(s, "KEYWORD", "end") ->
                    Call(matchv(s, "KEYWORD", "end"), k, [f EXCEPT !.at = "end", !.l3 = l_blocks],
                         EosFrame("", FALSE))
               [] OTHER ->
                    [s |-> error_at_nt(s, "expected properties|methods|events|enumeration inside classdef"),
                     k |-> k]
        super_classes(c) ==
          Call(c, k, [f EXCEPT !.at = "eos", !.l2 = c.rv.kids], EosFrame("", FALSE))
        name(n) ==
          IF peekv(n, "OPERATOR", "<")
          THEN Resume(matchv(n, "OPERATOR", "<"), k, [f EXCEPT !.at = "inheritance", !.n = n.rv])
          ELSE Call(n, k, [f EXCEPT !.at = "eos", !.n = n.rv], EosFrame("", FALSE))
    IN CASE f.at = "start" ->
              Call(push_context(matchv(s, "KEYWORD", "classdef"), "classdef"), k,
                   [f EXCEPT !.at = "attributes", !.t = s.nt],
                   NewFrame("parse_name_value_pair_list"))
         [] f.at = "attributes" ->
              Resume(s, k, [f EXCEPT !.at = "name", !.l = s.rv.kids])
         [] f.at = "name" -> name(parse_identifier(s, FALSE))
         [] f.at = "inheritance" -> super_classes(parse_super_classes(s, <<>>))
         [] f.at = "eos" -> loop(<<>>)
         [] f.at = "block" -> loop(Append(f.l3, s.rv))
         [] f.at = "end" ->
              Return(pop_context(s), k, Class_Definition(f.t, f.n, f.l, f.l2, f.l3))

(***************************************************************************)
(* Statements                                                              *)
(***************************************************************************)
ForAssignmentFrame(allow_brackets, allow_recursion) ==
    [NewFrame("parse_for_assignment") EXCEPT !.b = allow_brackets, !.b2 = allow_recursion]

\* self.match("KEYWORD", "end"); self.match_eos(rv); the caller's position
\* "end" does the pop_context and the return of rv
match_end(s, f, k, rv) ==
    Call(matchv(s, "KEYWORD", "end"), k, [f EXCEPT !.at = "end", !.rv = rv],
         EosFrame("", FALSE))

\* f.l is statements
parse_delimited_input(s, f, k) ==
    LET loop(statements) ==
          IF /\ peek(s, "KEYWORD")
             /\ toks[s.nt].value \in {"end", "catch", "case", "otherwise", "else", "elseif"}
          THEN Return(s, k, Sequence_Of_Statements(statements))
          ELSE Call(s, k, [f EXCEPT !.at = "statement", !.l = statements],
                    NewFrame("parse_statement"))
    IN CASE f.at = "start" -> loop(<<>>)
         [] f.at = "statement" -> loop(Append(f.l, s.rv))

\* the command form with the first CARRAY as its only argument
parse_command_arguments_one(s, arg_list) ==
    IF s.ok /\ peek(s, "CARRAY")
    THEN Ret(match(s, "CARRAY"), List(<<Char_Array_Literal(s.nt)>>))
    ELSE Ret(s, List(arg_list))

\* while self.peek("CARRAY") of the command form in parse_statement
RECURSIVE parse_command_arguments(_, _)
parse_command_arguments(s, arg_list) ==
    CASE ~s.ok -> s
      [] peek(s, "CARRAY") ->
           parse_command_arguments(match(s, "CARRAY"),
                                   Append(arg_list, Char_Array_Literal(s.nt)))
      [] OTHER -> Ret(s, List(arg_list))

\* a function statement is taken under any top of the context stack
top_context_is_any(s) == TRUE

\* if self.context[-1] != "function": (the error of a nested function)
top_context_is_function(s) == s.context[Len(s.context)] = "function"

\* f.n is rv of the else branch (the expression), f.t is t_eq, f.rv the
\* statement
parse_statement(s, f, k) ==
    LET kw == toks[s.nt].value
        keyword ==
          CASE kw = "for" -> TailCall(s, k, NewFrame("parse_for_statement"))
            [] kw = "if" -> TailCall(s, k, NewFrame("parse_if_statement"))
            [] kw = "global" -> TailCall(s, k, NewFrame("parse_global_statement"))
            [] kw = "while" -> TailCall(s, k, NewFrame("parse_while_statement"))
            [] kw = "return" -> TailCall(s, k, NewFrame("parse_return_statement"))
            [] kw = "switch" -> TailCall(s, k, NewFrame("parse_switch_statement"))
            [] kw = "break" -> TailCall(s, k, NewFrame("parse_break_statement"))
            [] kw = "continue" -> TailCall(s, k, NewFrame("parse_continue_statement"))
            [] kw = "import" -> TailCall(s, k, NewFrame("parse_import_statement"))
            [] kw = "try" -> TailCall(s, k, NewFrame("parse_try_statement"))
            [] kw = "persistent" -> TailCall(s, k, NewFrame("parse_persistent_statement"))
            [] kw = "parfor" -> TailCall(s, k, NewFrame("parse_parfor_statement"))
            [] kw = "spmd" -> TailCall(s, k, NewFrame("parse_spmd_statement"))
            [] kw = "function" /\ in_context(s, "function") ->
                 IF ~top_context_is_function(s)
                 THEN [s |-> error(s, "nested function cannot appear inside "
                                      \o s.context[Len(s.context)]),
                       k |-> k]
                 ELSE TailCall(s, k, NewFrame("parse_function_def"))
            [] OTHER ->
                 [s |-> error(s, "expected valid statement, found keyword '"
                                 \o kw \o "' instead"),
                  k |-> k]
        bang(b) ==
          Return(match(b, "NEWLINE"), k,
                 Naked_Expression_Statement(
                     Function_Call(Identifier(b.ct), <<Char_Array_Literal(b.ct)>>, "escape")))
        statement(s1, rv) ==
          Call(s1, k, [f EXCEPT !.at = "eos", !.rv = rv], EosFrame(";", FALSE))
        assignment(a) ==
          Call(IF ~IsName(s.rv)
               THEN error(a, "left-hand side of assignment must be a Name, found "
                             \o s.rv.k \o " instead")
               ELSE a,
               k, [f EXCEPT !.at = "rhs", !.n = s.rv, !.t = a.ct], ExpressionFrame)
        command(c) ==
          statement(c, Naked_Expression_Statement(Function_Call(s.rv, c.rv.kids, "command")))
    IN CASE f.at = "start" ->
              CASE peek(s, "KEYWORD") -> keyword
                [] peek(s, "BANG") -> bang(match(s, "BANG"))
                [] peek(s, "A_BRA") -> TailCall(s, k, NewFrame("parse_list_assignment"))
                [] OTHER -> Call(s, k, [f EXCEPT !.at = "expression"], ExpressionFrame)
         [] f.at = "expression" ->
              CASE peek(s, "ASSIGNMENT") -> assignment(match(s, "ASSIGNMENT"))
                [] peek(s, "CARRAY") ->
                     command(parse_command_arguments(
                         IF s.rv.k \notin {"Identifier", "Selection"}
                         THEN error(s, "command form requires a simple (dotted) identifier; found "
                                       \o s.rv.k \o " instead")
                         ELSE s, <<>>))
                [] OTHER -> statement(s, Naked_Expression_Statement(s.rv))
         [] f.at = "rhs" ->
              statement(builtin_shadow(s, f.n), Simple_Assignment_Statement(f.t, f.n, s.rv))
         [] f.at = "eos" -> Return(s, k, f.rv)

\* require_comma is never set
require_comma_never(s, f) == FALSE

\* if self.peek("OPERATOR", "~"): require_comma = True
require_comma(s, f) == f.b \/ peekv(s, "OPERATOR", "~")

\* f.l is lhs, f.b is require_comma, f.t is the token of rv.set_token_eq
parse_list_assignment(s, f, k) ==
    LET bra(b) ==
          Resume(IF peek(b, "COMMA") THEN match(b, "COMMA") ELSE b, k,
                 [f EXCEPT !.at = "target"])
        eq(e, lhs) ==
          Call(e, k, [f EXCEPT !.at = "expression", !.l = lhs, !.t = e.ct], ExpressionFrame)
        after(c, lhs, require) ==
          IF peek(c, "A_KET") THEN eq(match(match(c, "A_KET"), "ASSIGNMENT"), lhs)
          ELSE Resume(c, k, [f EXCEPT !.at = "target", !.l = lhs, !.b = require])
        target(t, lhs) ==
          IF (peek(t, "COMMA") \/ f.b) /\ ~peek(t, "A_KET")
          THEN after(match(t, "COMMA"), lhs, FALSE)
          ELSE after(t, lhs, f.b)
    IN CASE f.at = "start" -> bra(match(s, "A_BRA"))
         [] f.at = "target" ->
              Call(s, k, [f EXCEPT !.at = "name", !.b = require_comma(s, f)],
                   NameFrame(TRUE))
         [] f.at = "name" -> target(builtin_shadow(s, s.rv), Append(f.l, s.rv))
         [] f.at = "expression" ->
              Call(s, k, [f EXCEPT !.at = "eos",
                                   !.rv = Compound_Assignment_Statement(f.t, f.l, s.rv)],
                   EosFrame(";", FALSE))
         [] f.at = "eos" -> Return(s, k, f.rv)

\* f.l is actions; of n_action, f.t is the keyword and f.n the expression;
\* f.b tells that n_action is the one of else
parse_if_statement(s, f, k) ==
    LET expression(m, actions) ==
          Call(m, k, [f EXCEPT !.at = "expression", !.t = m.ct, !.l = actions],
               ExpressionFrame)
        else(m, actions) ==
          Call(m, k, [f EXCEPT !.at = "eos", !.t = m.ct, !.n = None, !.b = TRUE,
                               !.l = actions],
               EosFrame("", TRUE))
        body(actions) ==
          CASE ~f.b /\ peekv(s, "KEYWORD", "elseif") ->
                 expression(matchv(s, "KEYWORD", "elseif"), actions)
            [] ~f.b /\ peekv(s, "KEYWORD", "else") ->
                 else(matchv(s, "KEYWORD", "else"), actions)
            [] OTHER -> match_end(s, [f EXCEPT !.l = actions], k, If_Statement(actions))
    IN CASE f.at = "start" -> expression(push_context(matchv(s, "KEYWORD", "if"), "if"), <<>>)
         [] f.at = "expression" ->
              Call(s, k, [f EXCEPT !.at = "eos", !.n = s.rv], EosFrame("", TRUE))
         [] f.at = "eos" ->
              Call(s, k, [f EXCEPT !.at = "body"], NewFrame("parse_delimited_input"))
         [] f.at = "body" -> body(Append(f.l, Action(f.t, f.n, s.rv)))
         [] f.at = "end" -> Return(pop_context(s), k, f.rv)

parse_return_statement(s, f, k) ==
    LET kw(m) ==
          Call(m, k, [f EXCEPT !.at = "eos", !.rv = Return_Statement(m.ct)],
               EosFrame("", FALSE))
    IN CASE f.at = "start" -> kw(matchv(s, "KEYWORD", "return"))
         [] f.at = "eos" -> Return(s, k, f.rv)

\* the error of a break or continue outside a loop, made fatal
loop_error_fatal(s, message) == error(s, message)

\* self.mh.error(self.ct.location, "... must appear inside loop",
\* fatal = False)
loop_error(s, message) == warning(s, message)

parse_break_statement(s, f, k) ==
    LET kw(m) ==
          Call(IF ~in_context(m, "loop")
               THEN loop_error(m, "break must appear inside loop") ELSE m,
               k, [f EXCEPT !.at = "eos", !.rv = Break_Statement(m.ct)],
               EosFrame("", FALSE))
    IN CASE f.at = "start" -> kw(matchv(s, "KEYWORD", "break"))
         [] f.at = "eos" -> Return(s, k, f.rv)

parse_continue_statement(s, f, k) ==
    LET kw(m) ==
          Call(IF ~in_context(m, "loop")
               THEN loop_error(m, "continue must appear inside loop") ELSE m,
               k, [f EXCEPT !.at = "eos", !.rv = Continue_Statement(m.ct)],
               EosFrame("", FALSE))
    IN CASE f.at = "start" -> kw(matchv(s, "KEYWORD", "continue"))
         [] f.at = "eos" -> Return(s, k, f.rv)

\* f.b is allow_brackets, f.b2 is allow_recursion, f.n is n_ident; returns
\* n_ident, n_expr: rv is the list of the two
parse_for_assignment(s, f, k) ==
    LET identifier(i) ==
          Call(match(i, "ASSIGNMENT"), k, [f EXCEPT !.at = "expression", !.n = i.rv],
               ExpressionFrame)
    IN CASE f.at = "start" ->
              IF peek(s, "BRA") /\ f.b
              THEN Call(match(s, "BRA"), k, [f EXCEPT !.at = "bracketed"],
                        ForAssignmentFrame(f.b2, f.b2))
              ELSE identifier(parse_identifier(s, FALSE))
         [] f.at = "bracketed" -> Return(match(s, "KET"), k, s.rv)
         [] f.at = "expression" -> Return(s, k, List(<<f.n, s.rv>>))

\* f.t is the token of rv, f.n is n_ident, f.n2 is n_expr
parse_for_statement(s, f, k) ==
    LET kw(m) ==
          Call(push_context(m, "loop"), k, [f EXCEPT !.at = "assignment", !.t = m.ct],
               ForAssignmentFrame(TRUE, FALSE))
    IN CASE f.at = "start" -> kw(matchv(s, "KEYWORD", "for"))
         [] f.at = "assignment" ->
              Call(s, k, [f EXCEPT !.at = "eos", !.n = s.rv.kids[1], !.n2 = s.rv.kids[2]],
                   EosFrame("", FALSE))
         [] f.at = "eos" ->
              Call(s, k, [f EXCEPT !.at = "body"], NewFrame("parse_delimited_input"))
         [] f.at = "body" ->
              match_end(s, f, k, General_For_Statement(f.t, f.n, f.n2, s.rv))
         [] f.at = "end" -> Return(pop_context(s), k, f.rv)

\* f.t is the token of rv, f.n is n_ident, f.n2 is n_expr, f.n3 the workers
parse_parfor_statement(s, f, k) ==
    LET kw(m) ==
          IF peek(m, "BRA")
          THEN Call(match(m, "BRA"), k, [f EXCEPT !.at = "bracketed", !.t = m.ct],
                    ForAssignmentFrame(FALSE, FALSE))
          ELSE Call(m, k, [f EXCEPT !.at = "plain", !.t = m.ct],
                    ForAssignmentFrame(FALSE, FALSE))
    IN CASE f.at = "start" -> kw(push_context(matchv(s, "KEYWORD", "parfor"), "loop"))
         [] f.at = "bracketed" ->
              IF peek(s, "COMMA")
              THEN Call(match(s, "COMMA"), k,
                        [f EXCEPT !.at = "workers", !.n = s.rv.kids[1], !.n2 = s.rv.kids[2]],
                        ExpressionFrame)
              ELSE Resume(match(s, "KET"), k,
                          [f EXCEPT !.at = "range", !.n = s.rv.kids[1], !.n2 = s.rv.kids[2]])
         [] f.at = "workers" ->
              Resume(match(s, "KET"), k, [f EXCEPT !.at = "range", !.n3 = s.rv])
         [] f.at = "plain" ->
              Resume(s, k, [f EXCEPT !.at = "range", !.n = s.rv.kids[1], !.n2 = s.rv.kids[2]])
         [] f.at = "range" ->
              IF f.n2.k # "Range_Expression"
              THEN [s |-> ICE(s, "parfor range is not a range"), k |-> k]
              ELSE Call(s, k, [f EXCEPT !.at = "eos"], EosFrame("", FALSE))
         [] f.at = "eos" ->
              Call(s, k, [f EXCEPT !.at = "body"], NewFrame("parse_delimited_input"))
         [] f.at = "body" ->
              match_end(s, f, k, Parallel_For_Statement(f.t, f.n, f.n2, s.rv, f.n3))
         [] f.at = "end" -> Return(pop_context(s), k, f.rv)

\* f.t is t_kw, f.n is n_guard
parse_while_statement(s, f, k) ==
    LET kw(m) ==
          Call(push_context(m, "loop"), k, [f EXCEPT !.at = "guard", !.t = m.ct],
               ExpressionFrame)
    IN CASE f.at = "start" -> kw(matchv(s, "KEYWORD", "while"))
         [] f.at = "guard" ->
              Call(s, k, [f EXCEPT !.at = "eos", !.n = s.rv], EosFrame("", FALSE))
         [] f.at = "eos" ->
              Call(s, k, [f EXCEPT !.at = "body"], NewFrame("parse_delimited_input"))
         [] f.at = "body" -> match_end(s, f, k, While_Statement(f.t, f.n, s.rv))
         [] f.at = "end" -> Return(pop_context(s), k, f.rv)

\* the while True loop of parse_global_statement
RECURSIVE parse_global_names(_, _)
parse_global_names(s, names) ==
    LET name(i) ==
          CASE ~i.ok -> i
            [] peek(i, "NEWLINE") ->
                 Ret(match(i, "NEWLINE"), List(Append(names, i.rv)))
            [] peek(i, "SEMICOLON") ->
                 Ret(match(match(i, "SEMICOLON"), "NEWLINE"),
                     List(Append(names, i.rv)))
            [] OTHER -> parse_global_names(i, Append(names, i.rv))
    IN name(parse_identifier(s, FALSE))

parse_global_statement(s, f, k) ==
    LET names(n) == Return(n, k, Global_Statement(s.nt, n.rv.kids))
    IN names(parse_global_names(matchv(s, "KEYWORD", "global"), <<>>))

\* the while True loop of parse_persistent_statement, up to its match_eos
RECURSIVE parse_persistent_names(_, _)
parse_persistent_names(s, names) ==
    LET name(i) ==
          CASE ~i.ok -> i
            [] peek_eos(i) -> Ret(i, List(Append(names, i.rv)))
            [] OTHER -> parse_persistent_names(i, Append(names, i.rv))
    IN name(parse_identifier(s, FALSE))

parse_persistent_statement(s, f, k) ==
    LET names(n) ==
          Call(n, k, [f EXCEPT !.at = "eos", !.rv = Persistent_Statement(s.nt, n.rv.kids)],
               EosFrame("", FALSE))
    IN CASE f.at = "start" ->
              names(parse_persistent_names(matchv(s, "KEYWORD", "persistent"), <<>>))
         [] f.at = "eos" -> Return(s, k, f.rv)

\* f.t is t_switch, f.n3 is n_switch_expr, f.l the actions; of n_action,
\* f.t2 is the keyword and f.n the expression; f.b tells that n_action is
\* the one of otherwise
parse_switch_statement(s, f, k) ==
    LET kw(m) ==
          Call(push_context(m, "switch"), k, [f EXCEPT !.at = "switch", !.t = m.ct],
               ExpressionFrame)
        otherwise(m, actions) ==
          Call(m, k, [f EXCEPT !.at = "eos", !.t2 = m.ct, !.n = None, !.b = TRUE,
                               !.l = actions],
               EosFrame("", TRUE))
        case(m, actions) ==
          Call(m, k, [f EXCEPT !.at = "expression", !.t2 = m.ct, !.l = actions],
               ExpressionFrame)
        loop(actions) ==
          IF peekv(s, "KEYWORD", "otherwise")
          THEN otherwise(matchv(s, "KEYWORD", "otherwise"), actions)
          ELSE case(matchv(s, "KEYWORD", "case"), actions)
        body(actions) ==
          IF f.b \/ peekv(s, "KEYWORD", "end")
          THEN match_end(s, [f EXCEPT !.l = actions], k,
                         Switch_Statement(f.t, f.n3, actions))
          ELSE loop(actions)
    IN CASE f.at = "start" -> kw(matchv(s, "KEYWORD", "switch"))
         [] f.at = "switch" ->
              Call(s, k, [f EXCEPT !.at = "actions", !.n3 = s.rv], EosFrame("", FALSE))
         [] f.at = "actions" -> loop(<<>>)
         [] f.at = "expression" ->
              Call(s, k, [f EXCEPT !.at = "eos", !.n = s.rv], EosFrame("", TRUE))
         [] f.at = "eos" ->
              Call(s, k, [f EXCEPT !.at = "body"], NewFrame("parse_delimited_input"))
         [] f.at = "body" -> body(Append(f.l, Action(f.t2, f.n, s.rv)))
         [] f.at = "end" -> Return(pop_context(s), k, f.rv)

\* the while loop of parse_import_statement; chain holds tokens
RECURSIVE parse_import_chain(_, _)
parse_import_chain(s, chain) ==
    LET identifier(i) ==
          IF i.ok THEN parse_import_chain(i, Append(chain, Token(i.ct))) ELSE i
    IN CASE ~s.ok -> s
         [] peekv(s, "OPERATOR", ".*") ->
              Ret(matchv(s, "OPERATOR", ".*"), List(Append(chain, Token(s.nt))))
         [] peek(s, "SELECTION") ->
              identifier(match(match(s, "SELECTION"), "IDENTIFIER"))
         [] OTHER -> Ret(s, List(chain))

parse_import_statement(s, f, k) ==
    LET chain(c) ==
          Call(c, k, [f EXCEPT !.at = "eos", !.rv = Import_Statement(s.nt, c.rv.kids)],
               EosFrame("", FALSE))
        identifier(i) == chain(parse_import_chain(i, <<Token(i.ct)>>))
    IN CASE f.at = "start" ->
              identifier(match(matchv(s, "KEYWORD", "import"), "IDENTIFIER"))
         [] f.at = "eos" -> Return(s, k, f.rv)

\* f.t is the token of rv, f.n the body, f.t2 is t_catch, f.n2 the ident
parse_try_statement(s, f, k) ==
    LET kw(m) ==
          Call(push_context(m, "block"), k, [f EXCEPT !.at = "eos", !.t = m.ct],
               EosFrame("", TRUE))
        catch_eos(c, t_catch, n_ident) ==
          Call(c, k, [f EXCEPT !.at = "catch", !.n = s.rv, !.t2 = t_catch, !.n2 = n_ident],
               EosFrame("", FALSE))
        identifier(i, t_catch) == catch_eos(i, t_catch, i.rv)
        catch(c) ==
          IF ~peek_eos(c) THEN identifier(parse_identifier(c, FALSE), c.ct)
          ELSE catch_eos(c, c.ct, None)
    IN CASE f.at = "start" -> kw(matchv(s, "KEYWORD", "try"))
         [] f.at = "eos" ->
              Call(s, k, [f EXCEPT !.at = "body"], NewFrame("parse_delimited_input"))
         [] f.at = "body" ->
              IF peekv(s, "KEYWORD", "end")
              THEN match_end(s, f, k, Try_Statement(f.t, s.rv, 0, None, None))
              ELSE catch(matchv(s, "KEYWORD", "catch"))
         [] f.at = "catch" ->
              Call(s, k, [f EXCEPT !.at = "handler"], NewFrame("parse_delimited_input"))
         [] f.at = "handler" ->
              match_end(s, f, k, Try_Statement(f.t, f.n, f.t2, f.n2, s.rv))
         [] f.at = "end" -> Return(pop_context(s), k, f.rv)

\* f.t is the token of rv
parse_spmd_statement(s, f, k) ==
    LET kw(m) ==
          Call(push_context(m, "block"), k, [f EXCEPT !.at = "eos", !.t = m.ct],
               EosFrame("", FALSE))
    IN CASE f.at = "start" -> kw(matchv(s, "KEYWORD", "spmd"))
         [] f.at = "eos" ->
              Call(s, k, [f EXCEPT !.at = "body"], NewFrame("parse_delimited_input"))
         [] f.at = "body" -> match_end(s, f, k, SPMD_Statement(f.t, s.rv))
         [] f.at = "end" -> Return(pop_context(s), k, f.rv)

(***************************************************************************)
(* The machine                                                             *)
(***************************************************************************)
\* one step of the method of the topmost frame f; k is the stack below it
step(s, f, k) ==
    CASE f.fn = "parse_expression" -> [s |-> parse_expression(s), k |-> k]
      [] f.fn = "parse_name" -> [s |-> parse_name(s, f.b), k |-> k]
      [] f.fn = "match_eos" -> [s |-> match_eos(s, f.v, f.b), k |-> k]
      [] f.fn = "parse_file" -> parse_file(s, f, k)
      [] f.fn = "parse_script_file" -> parse_script_file(s, f, k)
      [] f.fn = "parse_class_file" -> parse_class_file(s, f, k)
      [] f.fn = "parse_function_list" -> parse_function_list(s, f, k)
      [] f.fn = "parse_function_signature" -> parse_function_signature(s, f, k)
      [] f.fn = "parse_function_def" -> parse_function_def(s, f, k)
      [] f.fn = "parse_name_value_pair_list" -> parse_name_value_pair_list(s, f, k)
      [] f.fn = "parse_validation_block" -> parse_validation_block(s, f, k)
      [] f.fn = "parse_class_methods" -> parse_class_methods(s, f, k)
      [] f.fn = "parse_enumeration" -> parse_enumeration(s, f, k)
      [] f.fn = "parse_class_events" -> parse_class_events(s, f, k)
      [] f.fn = "parse_classdef" -> parse_classdef(s, f, k)
      [] f.fn = "parse_delimited_input" -> parse_delimited_input(s, f, k)
      [] f.fn = "parse_statement" -> parse_statement(s, f, k)
      [] f.fn = "parse_list_assignment" -> parse_list_assignment(s, f, k)
      [] f.fn = "parse_if_statement" -> parse_if_statement(s, f, k)
      [] f.fn = "parse_return_statement" -> parse_return_statement(s, f, k)
      [] f.fn = "parse_break_statement" -> parse_break_statement(s, f, k)
      [] f.fn = "parse_continue_statement" -> parse_continue_statement(s, f, k)
      [] f.fn = "parse_for_assignment" -> parse_for_assignment(s, f, k)
      [] f.fn = "parse_for_statement" -> parse_for_statement(s, f, k)
      [] f.fn = "parse_parfor_statement" -> parse_parfor_statement(s, f, k)
      [] f.fn = "parse_while_statement" -> parse_while_statement(s, f, k)
      [] f.fn = "parse_global_statement" -> parse_global_statement(s, f, k)
      [] f.fn = "parse_persistent_statement" -> parse_persistent_statement(s, f, k)
      [] f.fn = "parse_switch_statement" -> parse_switch_statement(s, f, k)
      [] f.fn = "parse_import_statement" -> parse_import_statement(s, f, k)
      [] f.fn = "parse_try_statement" -> parse_try_statement(s, f, k)
      [] f.fn = "parse_spmd_statement" -> parse_spmd_statement(s, f, k)

\* the method on top of the stack
Top == calls[Len(calls)]

\* the parse runs the method on top of the stack up to its next call or to
\* its return; an exception unwinds the whole stack; a loop that goes on
\* for ever keeps the parse in the method for ever
Step ==
    LET apply(r) ==
          /\ parser' = r.s
          /\ calls' = IF Ok(r.s) THEN r.k ELSE IF r.s.looping THEN calls ELSE <<>>
          /\ pc' = CASE r.s.looping -> "looping"
                     [] Ok(r.s) /\ r.k # <<>> -> "run"
                     [] OTHER -> "done"
          /\ cunit' = IF Ok(r.s) /\ r.k = <<>> /\ Top.fn = "parse_file" THEN r.s.rv
                      ELSE cunit
    IN /\ pc = "run"
       /\ apply(step(parser, Top, SubSeq(calls, 1, Len(calls) - 1)))
       /\ UNCHANGED <<toks, cfg, in_class_directory>>
       /\ UNCHANGED outside

\* the state in which the method fn has just been called on a new parser
Called(fn) ==
    /\ parser = MATLAB_Parser
    /\ cunit = None
    /\ calls = <<NewFrame(fn)>>
    /\ pc = "run"
    /\ Outside

(***************************************************************************)
(* Expression specifications: the parser is constructed on a token         *)
(* sequence and parse_expression is applied to it.                         *)
(***************************************************************************)
\* the state after MATLAB_Parser(mh, lexer, cfg) on the tokens of toks
Constructed ==
    /\ cfg = {}
    /\ in_class_directory = FALSE
    /\ parser = MATLAB_Parser
    /\ cunit = None
    /\ calls = <<>>
    /\ pc = "expression"
    /\ Outside

ParseExpression ==
    /\ pc = "expression"
    /\ parser' = parse_expression(parser)
    /\ pc' = "done"
    /\ UNCHANGED <<toks, cfg, in_class_directory, cunit, calls>>
    /\ UNCHANGED outside

NextExpr == ParseExpression

(***************************************************************************)
(* Reading a tree                                                          *)
(***************************************************************************)
\* the node and all nodes below it
RECURSIVE Nodes(_)
Nodes(n) == {n} \cup UNION {Nodes(n.kids[i]) : i \in 1..Len(n.kids)}

\* the token indices of a tree of operands, unary and binary operations,
\* in source order
RECURSIVE Yield(_)
Yield(n) ==
    IF n.k = "Binary_Operation" THEN Yield(n.kids[1]) \o <<n.t>> \o Yield(n.kids[2])
    ELSE IF n.k = "Unary_Operation" /\ n.v \in {"'", ".'"} THEN Yield(n.kids[1]) \o <<n.t>>
    ELSE IF n.k = "Unary_Operation" THEN <<n.t>> \o Yield(n.kids[1])
    ELSE IF n.k = "Range_Expression"
         THEN Yield(n.kids[1])
              \o (IF n.kids[3] = None THEN <<>> ELSE <<n.t>> \o Yield(n.kids[3]))
              \o <<n.t>> \o Yield(n.kids[2])
    ELSE <<n.t>>

\* the binding level the language gives a binary operator (m_parser.py:57-76)
LevelOf(v) ==
    CASE v \in {"*", ".*", "/", "./", "\\", ".\\"} -> 5
      [] v \in {"+", "-"} -> 6
      [] v \in {"<", "<=", ">", ">=", "==", "~="} -> 8
      [] v = "&" -> 9
      [] v = "|" -> 10
      [] v = "&&" -> 11
      [] v = "||" -> 12
      [] OTHER -> 0

BinaryOperators == {"*", ".*", "/", "./", "\\", ".\\", "+", "-",
                    "<", "<=", ">", ">=", "==", "~=", "&", "|", "&&", "||"}

(***************************************************************************)
(* SpecPrec: operands joined by binary operators of the levels 5..12       *)
(***************************************************************************)
\* number of binary operators in an input
MaxPrecOps == 2

PrecOperands == {NUMBER("2"), NUMBER("3"), NUMBER("4")}

PrecOperators == {OPERATOR(v) : v \in {"*", "+", "-", "<", "&", "|", "&&", "||"}}

\* operand (operator operand)^k
Alternating(a, b, k) ==
    [i \in 1..(2 * k + 1) |-> IF i % 2 = 1 THEN a[(i + 1) \div 2] ELSE b[i \div 2]]

InitPrec ==
    /\ \E k \in 0..MaxPrecOps :
          \E a \in [1..(k + 1) -> PrecOperands], b \in [1..k -> PrecOperators] :
              toks = Alternating(a, b, k)
    /\ Constructed

SpecPrec == InitPrec /\ [][NextExpr]_vars

\* 2+3*4
Tokens_2_plus_3_times_4 ==
    <<NUMBER("2"), OPERATOR("+"), NUMBER("3"), OPERATOR("*"), NUMBER("4")>>

\* C1: an expression of operands and binary operators of the levels 5..12 is
\* parsed completely into a tree that keeps the source order of its tokens,
\* gives every operator node the level of its operator, nests only operators
\* of the same or a tighter level in the left operand and only operators of
\* a strictly tighter level in the right operand (tighter below looser,
\* equal levels folded to the left); 2+3*4 yields +(2, *(3, 4)).
C1_PrecedenceNesting ==
    pc = "done" =>
        /\ Ok(parser)
        /\ peek_eof(parser)
        /\ Yield(parser.rv) = [i \in 1..Len(toks) |-> i]
        /\ \A n \in Nodes(parser.rv) :
              n.k = "Binary_Operation" =>
                  /\ n.lvl = LevelOf(n.v)
                  /\ n.kids[1].k = "Binary_Operation" => n.kids[1].lvl <= n.lvl
                  /\ n.kids[2].k = "Binary_Operation" => n.kids[2].lvl < n.lvl
        /\ toks = Tokens_2_plus_3_times_4 =>
              parser.rv = Binary_Operation(6, 2, Number_Literal(1),
                              Binary_Operation(5, 4, Number_Literal(3), Number_Literal(5)))

\* 2+3*4 has been parsed
C1_Witness ==
    /\ pc = "done"
    /\ toks = Tokens_2_plus_3_times_4
    /\ parser.rv.k = "Binary_Operation"

(***************************************************************************)
(* SpecPow: powers, transposes and unary operators                         *)
(***************************************************************************)
\* number of tokens in an input
MaxPowLen == 6

PowAlphabet == {NUMBER("2")} \cup {OPERATOR(v) : v \in {"^", "-", "~", "'"}}

\* 2^-3^2
Tokens_2_pow_minus_3_pow_2 ==
    <<NUMBER("2"), OPERATOR("^"), OPERATOR("-"), NUMBER("3"), OPERATOR("^"), NUMBER("2")>>

InitPow ==
    /\ \/ \E n \in 0..MaxPowLen : toks \in [1..n -> PowAlphabet]
       \/ toks = Tokens_2_pow_minus_3_pow_2
    /\ Constructed

SpecPow == InitPow /\ [][NextExpr]_vars

IsPower(t) == t.kind = "OPERATOR" /\ t.value \in {"^", ".^"}

IsPrefix(t) == t.kind = "OPERATOR" /\ t.value \in {"+", "-", "~"}

\* operand (power prefix* operand)*
PowerShape(ts) ==
    /\ Len(ts) >= 1
    /\ ts[1].kind = "NUMBER"
    /\ ts[Len(ts)].kind = "NUMBER"
    /\ \A i \in 1..Len(ts) :
          \/ ts[i].kind = "NUMBER" /\ (i = Len(ts) \/ IsPower(ts[i + 1]))
          \/ i < Len(ts) /\ IsPower(ts[i]) /\ (IsPrefix(ts[i + 1]) \/ ts[i + 1].kind = "NUMBER")
          \/ i < Len(ts) /\ IsPrefix(ts[i]) /\ (IsPrefix(ts[i + 1]) \/ ts[i + 1].kind = "NUMBER")

\* the prefix operators a..n-1 applied to the operand n, the leftmost outermost
RECURSIVE PrefixNest(_, _)
PrefixNest(a, n) ==
    IF a = n THEN Number_Literal(n)
    ELSE Unary_Operation(3, a, PrefixNest(a + 1, n))

\* the tree of the tokens 1..n of a PowerShape input: split at the last power
\* operator; its right operand is the prefix run with the operand after it
RECURSIVE PowerTree(_)
PowerTree(n) ==
    IF \A i \in 1..n : ~IsPower(toks[i]) THEN Number_Literal(n)
    ELSE LET j == CHOOSE i \in 1..n : IsPower(toks[i]) /\ \A m \in (i + 1)..n : ~IsPower(toks[m])
         IN Binary_Operation(2, j, PowerTree(j - 1), PrefixNest(j + 1, n))

\* a prefix run of level 3 over a primary operand
RECURSIVE IsPrefixRunOverPrimary(_)
IsPrefixRunOverPrimary(n) ==
    \/ n.k = "Number_Literal"
    \/ /\ n.k = "Unary_Operation"
       /\ n.lvl = 3
       /\ n.v \in {"+", "-", "~"}
       /\ IsPrefixRunOverPrimary(n.kids[1])

\* C2: after a power operator the whole run of + - ~ is applied, rightmost
\* innermost, to the one primary operand that follows, and only then is the
\* power node built; power operators fold to the left.  The right operand of
\* every power node is such a prefix run over a primary, and an input
\* operand (power prefix* operand)* gives the left-folded tree; 2^-3^2 yields
\* ^(^(2, -(3)), 2).
C2_PowerUnaryChain ==
    pc = "done" /\ Ok(parser) =>
        /\ \A n \in Nodes(parser.rv) :
              n.k = "Binary_Operation" /\ n.lvl = 2 => IsPrefixRunOverPrimary(n.kids[2])
        /\ PowerShape(toks) => peek_eof(parser) /\ parser.rv = PowerTree(Len(toks))
        /\ toks = Tokens_2_pow_minus_3_pow_2 =>
              parser.rv = Binary_Operation(2, 5,
                              Binary_Operation(2, 2, Number_Literal(1),
                                  Unary_Operation(3, 3, Number_Literal(4))),
                              Number_Literal(6))

\* 2^-3^2 has been parsed
C2_Witness ==
    /\ pc = "done"
    /\ Ok(parser)
    /\ toks = Tokens_2_pow_minus_3_pow_2
    /\ parser.rv.k = "Binary_Operation"

(***************************************************************************)
(* SpecRange: ranges, additions and relations                              *)
(***************************************************************************)
\* number of tokens in an input
MaxRangeLen == 7

RangeAlphabet == {NUMBER("1"), COLON, OPERATOR("+"), OPERATOR("<")}

\* 1:10
Tokens_1_to_10 == <<NUMBER("1"), COLON, NUMBER("10")>>

\* 1:2:10
Tokens_1_step_2_to_10 == <<NUMBER("1"), COLON, NUMBER("2"), COLON, NUMBER("10")>>

InitRange ==
    /\ \/ \E n \in 0..MaxRangeLen : toks \in [1..n -> RangeAlphabet]
       \/ toks \in {Tokens_1_to_10, Tokens_1_step_2_to_10}
    /\ Constructed

SpecRange == InitRange /\ [][NextExpr]_vars

\* the positions of the colons of ts
Colons(ts) == {i \in 1..Len(ts) : ts[i].kind = "COLON"}

\* one, two or three additive operands separated by colons
RangeShape(ts) ==
    /\ Len(ts) % 2 = 1
    /\ \A i \in 1..Len(ts) :
          IF i % 2 = 1 THEN ts[i].kind = "NUMBER"
          ELSE ts[i].kind = "COLON" \/ ts[i] = OPERATOR("+")
    /\ Cardinality(Colons(ts)) <= 2

\* the sequence a, a+1, .., b
FromTo(a, b) == [i \in 1..(b - a + 1) |-> a + i - 1]

RECURSIVE RightMost(_)
RightMost(n) == IF n.k = "Binary_Operation" THEN RightMost(n.kids[2]) ELSE n

\* C5 as stated: after the expression parser has returned, the next token is
\* no operator of a level above 4, the colon included.
C5_NoOperatorLeftColonIncluded ==
    pc = "done" /\ Ok(parser) =>
        /\ ~peek_op(parser, BinaryOperators)
        /\ ~peek(parser, "COLON")

\* C5 amended: after the expression parser has returned, the next token is
\* no binary operator of the levels 5, 6, 8..12 (these levels are loops).  The
\* colon level is no loop, it takes two colons at most: the next token is a
\* colon only after a range of three points, as in a:b:c:d.
C5_NoOperatorLeftButColon ==
    pc = "done" /\ Ok(parser) =>
        /\ ~peek_op(parser, BinaryOperators)
        /\ peek(parser, "COLON") =>
              /\ RightMost(parser.rv).k = "Range_Expression"
              /\ RightMost(parser.rv).kids[3] # None

\* a range of three points has been returned with a colon as the next token
C5_Witness ==
    /\ pc = "done"
    /\ Ok(parser)
    /\ parser.rv.k = "Range_Expression"
    /\ peek(parser, "COLON")
    /\ Len(toks) = 7

(***************************************************************************)
(* SpecRel: relations and element-wise AND                                 *)
(***************************************************************************)
\* number of tokens in an input
MaxRelLen == 7

RelAlphabet == {NUMBER("1")} \cup {OPERATOR(v) : v \in {"<", "==", "&"}}

InitRel ==
    /\ \E n \in 0..MaxRelLen : toks \in [1..n -> RelAlphabet]
    /\ Constructed

SpecRel == InitRel /\ [][NextExpr]_vars

IsRelational(t) ==
    t.kind = "OPERATOR" /\ t.value \in {"<", "<=", ">", ">=", "==", "~="}

\* the tokens the parser has consumed
Consumed(s) == IF s.nt = 0 THEN 1..Len(toks) ELSE 1..(s.nt - 1)

\* for a relational operator at i: how many relational operators its chain
\* holds up to and including i (a chain ends at an operator of a looser level)
ChainIndex(i) ==
    Cardinality({j \in 1..i :
        /\ IsRelational(toks[j])
        /\ \A m \in j..i : toks[m].kind = "OPERATOR" => IsRelational(toks[m])})

\* the relational operators that are the second or a later one of their chain
ChainedAgain(s) == {i \in Consumed(s) : IsRelational(toks[i]) /\ ChainIndex(i) >= 2}

\* C4 as stated: the chained-relation warning is given when, and only when, a
\* chain holds more than two relational operators.
C4_WarningIffMoreThanTwoOperators ==
    pc = "done" /\ Ok(parser) =>
        (parser.msgs # <<>> <=>
            \E i \in Consumed(parser) : IsRelational(toks[i]) /\ ChainIndex(i) > 2)

\* C4 amended: the chained-relation warning is given when, and only when, a
\* chain holds two or more relational operators (three or more operands):
\* once for every relational operator after the first of its chain.  One
\* relational operator alone gives no warning.
C4_WarningIffTwoOperators ==
    pc = "done" /\ Ok(parser) =>
        /\ Len(parser.msgs) = Cardinality(ChainedAgain(parser))
        /\ \A i \in 1..Len(parser.msgs) :
              parser.msgs[i] = "chained relation does not work the way you think it does"

\* a chain of two relational operators has been parsed and warned about
C4_Witness ==
    /\ pc = "done"
    /\ Ok(parser)
    /\ Len(parser.msgs) = 1
    /\ \E i \in Consumed(parser) : IsRelational(toks[i]) /\ ChainIndex(i) = 2
    /\ \A i \in Consumed(parser) : IsRelational(toks[i]) => ChainIndex(i) <= 2


(***************************************************************************)
(* Statement specifications: the parser is constructed on a token sequence *)
(* and parse_statement is called on it (no enclosing context).             *)
(***************************************************************************)
Next == Step

\* the configurations: every rule active, or the two rules of the parser
\* suppressed
Configurations == {{}, {"end_of_statements", "builtin_shadow"}}

\* the state after MATLAB_Parser(mh, lexer, cfg), at the call of
\* parse_statement
ConstructedForStatement ==
    /\ cfg \in Configurations
    /\ in_class_directory = FALSE
    /\ Called("parse_statement")

(***************************************************************************)
(* SpecStmt: statements that start with an expression                      *)
(***************************************************************************)
MaxStmtLen == 4

\* the opening brackets in a statement
MaxStmtBrackets == 1

StmtAlphabet ==
    {IDENTIFIER("x"), NUMBER("1"), CARRAY("1"), ASSIGNMENT, BRA, KET,
     OPERATOR("+"), NEWLINE}

\* x = 1
Tokens_x_eq_1 == <<IDENTIFIER("x"), ASSIGNMENT, NUMBER("1")>>

\* x 1 (command form: the lexer delivers the argument as a CARRAY)
Tokens_x_1 == <<IDENTIFIER("x"), CARRAY("1")>>

\* x(1)
Tokens_x_of_1 == <<IDENTIFIER("x"), BRA, NUMBER("1"), KET>>

InitStmt ==
    /\ \E n \in 0..MaxStmtLen : toks \in [1..n -> StmtAlphabet]
    /\ Cardinality({i \in 1..Len(toks) : toks[i] = BRA}) <= MaxStmtBrackets
    /\ ConstructedForStatement

SpecStmt == InitStmt /\ [][Next]_vars

\* the number of consecutive CARRAY tokens from token i on
RECURSIVE CarrayRun(_)
CarrayRun(i) ==
    IF i >= 1 /\ i <= Len(toks) /\ toks[i].kind = "CARRAY" THEN 1 + CarrayRun(i + 1)
    ELSE 0

\* the statement starts with neither a keyword, ! nor an assignment bracket
StartsWithExpression ==
    /\ MATLAB_Parser.nt # 0
    /\ toks[MATLAB_Parser.nt].kind \notin {"KEYWORD", "BANG", "A_BRA"}

\* the command-form statement of the expression of e with the run CARRAY
\* tokens after it as arguments
CommandOf(e, run) ==
    Naked_Expression_Statement(
        Function_Call(e.rv, [i \in 1..run |-> Char_Array_Literal(e.nt + i - 1)],
                      "command"))

\* the statement in parser is the one the token after the expression of e
\* stands for
ClassifiedAfter(e) ==
    Ok(e) =>
      /\ (Ok(parser) /\ peek(e, "ASSIGNMENT")) =>
             /\ parser.rv.k = "Simple_Assignment_Statement"
             /\ parser.rv.t = e.nt
             /\ parser.rv.kids[1] = e.rv
      /\ (Ok(parser) /\ peek(e, "CARRAY")) => parser.rv = CommandOf(e, CarrayRun(e.nt))
      /\ (Ok(parser) /\ ~peek(e, "ASSIGNMENT") /\ ~peek(e, "CARRAY")) =>
             parser.rv = Naked_Expression_Statement(e.rv)
      /\ ( /\ peek(e, "CARRAY")
           /\ e.rv.k \in {"Identifier", "Selection"}
           /\ \/ e.nt + CarrayRun(e.nt) > Len(toks)
              \/ toks[e.nt + CarrayRun(e.nt)].kind = "NEWLINE" ) =>
             Ok(parser) /\ parser.rv = CommandOf(e, CarrayRun(e.nt))
      /\ toks \in {Tokens_x_eq_1, Tokens_x_1, Tokens_x_of_1} => Ok(parser)

\* C6: a statement that starts with an expression is classified by the
\* token after that expression alone: ASSIGNMENT gives a simple assignment
\* of the expression, CARRAY a command-form call of it whose arguments are
\* exactly the consecutive CARRAY tokens that follow (and the statement is
\* accepted when a newline or the end of input follows them), anything else
\* the naked expression; x = 1, x 1 and x(1) are accepted and give the
\* three kinds.
C6_ClassifiedByNextToken ==
    (pc = "done" /\ StartsWithExpression) => ClassifiedAfter(parse_expression(MATLAB_Parser))

\* x 1 1 was parsed: a command-form call of x with the two arguments
C6_Witness ==
    /\ pc = "done"
    /\ toks = <<IDENTIFIER("x"), CARRAY("1"), CARRAY("1")>>
    /\ Ok(parser)
    /\ parser.rv.k = "Naked_Expression_Statement"
    /\ parser.rv.kids[1].k = "Function_Call"
    /\ parser.rv.kids[1].v = "command"
    /\ Len(parser.rv.kids[1].kids[2].kids) = 2

\* the statement of the expression of e was refused where its left side is
\* not of the classes its form asks for
LeftSideCheckedAfter(e) ==
    Ok(e) =>
      /\ (peek(e, "ASSIGNMENT") /\ e.rv.k \notin NameClasses) =>
             /\ parser.err = "left-hand side of assignment must be a Name, found "
                             \o e.rv.k \o " instead"
             /\ parser.rv.k \notin StatementClasses
      /\ (peek(e, "CARRAY") /\ e.rv.k \notin {"Identifier", "Selection"}) =>
             /\ parser.err = "command form requires a simple (dotted) identifier; found "
                             \o e.rv.k \o " instead"
             /\ parser.rv.k \notin StatementClasses

\* C7: an assignment whose left side is not a Name, and a command form
\* whose left side is neither an Identifier nor a Selection, end in the
\* fatal error of that case, and no statement node is returned.
C7_LeftSideChecked ==
    (pc = "done" /\ StartsWithExpression) =>
        LeftSideCheckedAfter(parse_expression(MATLAB_Parser))

\* 1 = 1 was refused
C7_Witness ==
    /\ pc = "done"
    /\ toks = <<NUMBER("1"), ASSIGNMENT, NUMBER("1")>>
    /\ parser.err = "left-hand side of assignment must be a Name, found Number_Literal instead"
    /\ parser.rv.k \notin StatementClasses

(***************************************************************************)
(* SpecList: list assignments [targets] = f()                              *)
(***************************************************************************)
MaxTargetLen == 4

TargetAlphabet == {OPERATOR("~"), IDENTIFIER("x"), IDENTIFIER("y"), COMMA}

\* [ targets ] = f ( )
ListAssignment(targets) ==
    <<A_BRA>> \o targets \o <<A_KET, ASSIGNMENT, IDENTIFIER("f"), BRA, KET>>

InitList ==
    /\ \E n \in 0..MaxTargetLen :
          \E targets \in [1..n -> TargetAlphabet] : toks = ListAssignment(targets)
    /\ ConstructedForStatement

SpecList == InitList /\ [][Next]_vars

\* the tokens between the brackets
TargetTokens == SubSeq(toks, 2, Len(toks) - 5)

\* the positions in toks of the target tokens that are not commas
RECURSIVE TargetPositions(_)
TargetPositions(i) ==
    IF i > Len(toks) - 5 THEN <<>>
    ELSE IF toks[i] = COMMA THEN TargetPositions(i + 1)
    ELSE <<i>> \o TargetPositions(i + 1)

\* the target lists parse_list_assignment takes: after at most one
\* leading comma, targets with at most one comma after each, where a
\* void target is followed by a comma or is the last
TargetListTaken(tl) ==
    LET body == IF tl # <<>> /\ tl[1] = COMMA THEN Tail(tl) ELSE tl
    IN /\ body # <<>>
       /\ body[1] # COMMA
       /\ \A i \in 1..(Len(body) - 1) :
             /\ ~(body[i] = COMMA /\ body[i + 1] = COMMA)
             /\ ~(body[i] = OPERATOR("~") /\ body[i + 1] # COMMA)

\* the statement parsed from the target tokens tl, that stand at the
\* positions at of toks
VoidNeedsCommaIn(tl, at) ==
    /\ (\E i \in 1..(Len(tl) - 1) : tl[i] = OPERATOR("~") /\ tl[i + 1] # COMMA)
           => parser.err # "" /\ parser.rv.k \notin StatementClasses
    /\ Ok(parser) <=> TargetListTaken(tl)
    /\ Ok(parser) =>
           /\ parser.rv.k = "Compound_Assignment_Statement"
           /\ parser.rv.kids[1].kids = [i \in 1..Len(at) |-> Identifier(at[i])]
           /\ Len(parser.rv.kids[1].kids) >= 1
    /\ toks = ListAssignment(<<OPERATOR("~"), COMMA, IDENTIFIER("x")>>) =>
           /\ Ok(parser)
           /\ Len(parser.rv.kids[1].kids) = 2
           /\ parser.rv.kids[1].kids[1].v = "~"

\* C8: in a list assignment, a void target ~ directly followed by another
\* target is a fatal error; the lists taken are exactly those with at most
\* one leading comma and targets separated by at most one comma, where
\* only a non-void target may be followed by a target without a comma; the
\* targets of the statement are the target tokens in order, at least one;
\* [~, x] = f() has two targets, the first void.
C8_VoidNeedsComma ==
    pc = "done" => VoidNeedsCommaIn(TargetTokens, TargetPositions(2))

\* [~, x] = f() was parsed: two targets, the first void
C8_Witness ==
    /\ pc = "done"
    /\ toks = ListAssignment(<<OPERATOR("~"), COMMA, IDENTIFIER("x")>>)
    /\ Ok(parser)
    /\ Len(parser.rv.kids[1].kids) = 2
    /\ parser.rv.kids[1].kids[1].v = "~"
    /\ parser.rv.kids[1].kids[2].v = "x"

(***************************************************************************)
(* File specifications: the parser is constructed on the tokens of a file  *)
(* and parse_file is called on it.                                         *)
(***************************************************************************)
\* the token sequences made of up to max of the given lines
RECURSIVE Concat(_)
Concat(ls) == IF ls = <<>> THEN <<>> ELSE Head(ls) \o Concat(Tail(ls))

Texts(lines, max) == {Concat(ls) : ls \in UNION {[1..n -> lines] : n \in 0..max}}

\* the positions in toks of the keyword kw
RECURSIVE KeywordPositions(_, _)
KeywordPositions(kw, i) ==
    IF i > Len(toks) THEN <<>>
    ELSE IF toks[i] = KEYWORD(kw) THEN <<i>> \o KeywordPositions(kw, i + 1)
    ELSE KeywordPositions(kw, i + 1)

(***************************************************************************)
(* SpecFun: files of function headers, statements and end lines            *)
(***************************************************************************)
MaxFunLines == 4

FunLines ==
    {<<KEYWORD("function"), IDENTIFIER("f"), NEWLINE>>,
     <<KEYWORD("end"), NEWLINE>>,
     <<IDENTIFIER("x"), NEWLINE>>,
     <<KEYWORD("classdef"), IDENTIFIER("c"), NEWLINE>>}

InitFun ==
    /\ toks \in Texts(FunLines, MaxFunLines)
    /\ cfg = {}
    /\ in_class_directory \in BOOLEAN
    /\ Called("parse_file")

SpecFun == InitFun /\ [][Next]_vars

\* the method under way is fn at its position at
At(fn, at) == pc = "run" /\ Top.fn = fn /\ Top.at = at

\* the step sets functions_require_end
RequireEndSet == ~parser.functions_require_end /\ parser'.functions_require_end

\* C9: functions_require_end is false at first; a step sets it only where
\* a class file starts or where a function is closed with end; no step
\* resets it; and where the body of a function has reached the end of the
\* input while it is set, the step raises the fatal error 'this function
\* must be terminated with end'.
C9_RequireEndPropagates ==
    /\ ~parser.functions_require_end
    /\ [][/\ parser.functions_require_end => parser'.functions_require_end
          /\ RequireEndSet =>
                \/ At("parse_class_file", "start")
                \/ At("parse_function_def", "body") /\ peekv(parser, "KEYWORD", "end")
          /\ (At("parse_function_def", "body") /\ peekv(parser, "KEYWORD", "end"))
                => parser'.functions_require_end
          /\ At("parse_class_file", "start") => parser'.functions_require_end
          /\ ( /\ At("parse_function_def", "body")
               /\ peek_eof(parser)
               /\ parser.functions_require_end )
                => /\ ~Ok(parser')
                   /\ parser'.err = "this function must be terminated with end"
                   /\ pc' = "done"]_vars

\* function f / end / function f: the second function reached the end of
\* the input without end and was refused
C9_Witness ==
    /\ toks = Concat(<<<<KEYWORD("function"), IDENTIFIER("f"), NEWLINE>>,
                       <<KEYWORD("end"), NEWLINE>>,
                       <<KEYWORD("function"), IDENTIFIER("f"), NEWLINE>>>>)
    /\ pc = "done"
    /\ parser.functions_require_end
    /\ parser.err = "this function must be terminated with end"

\* the functions of the compilation unit
FunctionsOf(n) == IF n.k = "Function_File" THEN n.kids ELSE n.kids[2].kids

\* C10: when no function of a file is closed with end, the functions of
\* the file are a flat list in source order: one entry for each function
\* keyword, in the order of the keywords, each with an empty list of
\* nested functions.
C10_FlatFunctionList ==
    ( /\ pc = "done"
      /\ Ok(parser)
      /\ cunit.k \in {"Function_File", "Script_File"}
      /\ KeywordPositions("end", 1) = <<>> ) =>
        /\ Len(FunctionsOf(cunit)) = Len(KeywordPositions("function", 1))
        /\ \A i \in 1..Len(FunctionsOf(cunit)) :
              /\ FunctionsOf(cunit)[i].k = "Function_Definition"
              /\ FunctionsOf(cunit)[i].t = KeywordPositions("function", 1)[i]
              /\ FunctionsOf(cunit)[i].kids[4].kids = <<>>

\* function f / function f / x / function f: three functions without end,
\* the statement in the body of the second
C10_Witness ==
    /\ toks = Concat(<<<<KEYWORD("function"), IDENTIFIER("f"), NEWLINE>>,
                       <<KEYWORD("function"), IDENTIFIER("f"), NEWLINE>>,
                       <<IDENTIFIER("x"), NEWLINE>>,
                       <<KEYWORD("function"), IDENTIFIER("f"), NEWLINE>>>>)
    /\ pc = "done"
    /\ Ok(parser)
    /\ cunit.k = "Function_File"
    /\ Len(cunit.kids) = 3
    /\ Len(cunit.kids[2].kids[3].kids) = 1
    /\ \A i \in 1..3 : cunit.kids[i].kids[4].kids = <<>>

(***************************************************************************)
(* SpecSig: parse_function_signature on the tokens after the keyword       *)
(***************************************************************************)
MaxSigLen == 4

SigAlphabet ==
    {IDENTIFIER("x"), A_BRA, A_KET, BRA, KET, ASSIGNMENT, COMMA, SEMICOLON, NEWLINE}

InitSig ==
    /\ \E n \in 0..MaxSigLen : toks \in [1..n -> SigAlphabet]
    /\ cfg = {}
    /\ in_class_directory = FALSE
    /\ Called("parse_function_signature")

SpecSig == InitSig /\ [][Next]_vars

\* the kind of token i, "" past the end of the input
KindAt(i) == IF i >= 1 /\ i <= Len(toks) THEN toks[i].kind ELSE ""

\* the fatal errors of self.match("ASSIGNMENT")
AssignmentExpected ==
    {"expected ASSIGNMENT, reached EOF instead"}
    \cup {"expected ASSIGNMENT, found " \o t.kind \o " instead" : t \in SigAlphabet}

\* the position of the first closing bracket of an output list, 0 if none
RECURSIVE FirstOf(_, _)
FirstOf(kind, i) ==
    IF i > Len(toks) THEN 0
    ELSE IF toks[i].kind = kind THEN i
    ELSE FirstOf(kind, i + 1)

\* the tokens 2..j-1 are a list of identifiers separated by commas, or none
IdentifierList(j) ==
    \/ j = 2
    \/ /\ j > 2
       /\ (j - 2) % 2 = 1
       /\ \A i \in 2..(j - 1) :
             KindAt(i) = IF i % 2 = 0 THEN "IDENTIFIER" ELSE "COMMA"

\* the identifiers of such a list
Identifiers(j) == [i \in 1..((j - 1) \div 2) |-> Identifier(2 * i)]

\* the signature after one name that is not in brackets
UnbracketedName ==
    /\ KindAt(2) \in {"BRA", "NEWLINE"} =>
          /\ parser.err \notin AssignmentExpected
          /\ Ok(parser) =>
                /\ parser.rv.k = "Function_Signature"
                /\ parser.rv.kids[1] = Identifier(1)
                /\ parser.rv.kids[3].kids = <<>>
    /\ KindAt(2) = "NEWLINE" => Ok(parser)
    /\ KindAt(2) \notin {"BRA", "NEWLINE", "ASSIGNMENT"} =>
          ~Ok(parser) /\ parser.err \in AssignmentExpected
    /\ (KindAt(2) = "ASSIGNMENT" /\ Ok(parser)) =>
          /\ parser.rv.kids[1] = Identifier(3)
          /\ parser.rv.kids[3].kids = <<Identifier(1)>>

\* the signature after an output list in brackets that closes at token j
BracketedOutputs(j) ==
    /\ KindAt(j + 1) # "ASSIGNMENT" => ~Ok(parser) /\ parser.err \in AssignmentExpected
    /\ Ok(parser) =>
          /\ parser.rv.kids[1] = Identifier(j + 2)
          /\ parser.rv.kids[3].kids = Identifiers(j)

\* C11: after one name that is not in brackets, an open bracket or a
\* newline makes the name the function name with no outputs (and no
\* assignment is asked for); after any other token, and after an output
\* list in brackets of any length, the next token must be ASSIGNMENT: the
\* parse ends in the fatal error of match otherwise, and the outputs are
\* the names before the assignment, the function name the one after it.
C11_NameOrOutputs ==
    pc = "done" =>
        /\ KindAt(1) = "IDENTIFIER" => UnbracketedName
        /\ ( /\ KindAt(1) = "A_BRA"
             /\ FirstOf("A_KET", 1) # 0
             /\ IdentifierList(FirstOf("A_KET", 1)) ) =>
                BracketedOutputs(FirstOf("A_KET", 1))

\* x followed by a newline was taken as the function x without outputs
C11_Witness ==
    /\ pc = "done"
    /\ toks = <<IDENTIFIER("x"), NEWLINE>>
    /\ Ok(parser)
    /\ parser.rv.k = "Function_Signature"
    /\ parser.rv.kids[1] = Identifier(1)
    /\ parser.rv.kids[3].kids = <<>>

(***************************************************************************)
(* SpecVal: parse_validation_block on a block of one entry, made of a      *)
(* name and optional parts in any order                                    *)
(***************************************************************************)
\* the optional parts after the name of an entry
MaxValParts == 4

\* kind 1 is a size constraint, 2 a class, 3 a validator list, 4 a default
ValParts ==
    {[kind |-> 1, toks |-> <<BRA, NUMBER("1"), KET>>],
     [kind |-> 1, toks |-> <<BRA, COLON, KET>>],
     [kind |-> 1, toks |-> <<BRA, NUMBER("1"), COMMA, COLON, KET>>],
     [kind |-> 2, toks |-> <<IDENTIFIER("double")>>],
     [kind |-> 3, toks |-> <<C_BRA, IDENTIFIER("mustBePositive"), C_KET>>],
     [kind |-> 4, toks |-> <<ASSIGNMENT, NUMBER("5")>>]}

ValNames ==
    {<<IDENTIFIER("x")>>,
     <<IDENTIFIER("x"), SELECTION, IDENTIFIER("y")>>,
     <<OPERATOR("~")>>}

\* the sequences of parts of different kinds
ValPartSeqs ==
    {ps \in UNION {[1..n -> ValParts] : n \in 0..MaxValParts} :
        \A i, j \in 1..Len(ps) : i # j => ps[i].kind # ps[j].kind}

ValidationBlock(kw, name, ps) ==
    <<KEYWORD(kw), NEWLINE>> \o name \o Concat([i \in 1..Len(ps) |-> ps[i].toks])
    \o <<NEWLINE, KEYWORD("end"), NEWLINE>>

\* x (1,:) double {mustBePositive} = 5 in an arguments block
Tokens_validation_entry ==
    <<KEYWORD("arguments"), NEWLINE,
      IDENTIFIER("x"), BRA, NUMBER("1"), COMMA, COLON, KET, IDENTIFIER("double"),
      C_BRA, IDENTIFIER("mustBePositive"), C_KET, ASSIGNMENT, NUMBER("5"),
      NEWLINE, KEYWORD("end"), NEWLINE>>

\* x (:) in an arguments block
Tokens_colon_only ==
    ValidationBlock("arguments", <<IDENTIFIER("x")>>, <<[kind |-> 1, toks |-> <<BRA, COLON, KET>>]>>)

InitVal ==
    /\ \E kw \in {"arguments", "properties"} : \E name \in ValNames :
          \E ps \in ValPartSeqs : toks = ValidationBlock(kw, name, ps)
    /\ cfg = {}
    /\ in_class_directory = FALSE
    /\ Called("parse_validation_block")

SpecVal == InitVal /\ [][Next]_vars

\* the last token of the name of the entry
NameEnd == IF KindAt(4) = "SELECTION" THEN 5 ELSE 3

\* the parts from token i on: the kind, the first and the last token of each
RECURSIVE PartsFrom(_)
PartsFrom(i) ==
    LET part(kind, to) == <<[kind |-> kind, from |-> i, to |-> to]>> \o PartsFrom(to + 1)
    IN CASE KindAt(i) = "BRA" -> part(1, FirstOf("KET", i))
         [] KindAt(i) = "IDENTIFIER" -> part(2, i)
         [] KindAt(i) = "C_BRA" -> part(3, FirstOf("C_KET", i))
         [] KindAt(i) = "ASSIGNMENT" -> part(4, i + 1)
         [] OTHER -> <<>>

\* the parts come in the order size, class, validators, default
InOrder(parts) == \A i, j \in 1..Len(parts) : i < j => parts[i].kind < parts[j].kind

\* the name is one the block takes: a dotted name, void allowed, in an
\* arguments block, a plain identifier in a properties block
NameTaken == toks[1].value = "arguments" \/ (NameEnd = 3 /\ KindAt(3) = "IDENTIFIER")

ExpectedName ==
    IF NameEnd = 5 THEN Selection(4, Identifier(3), Identifier(5)) ELSE Identifier(3)

\* the number of entries of the size constraint p
SizeEntries(p) == (p.to - p.from) \div 2

\* the part of the kind, if there is one, in a sequence of at most one
PartOfKind(parts, kind) == SelectSeq(parts, LAMBDA p : p.kind = kind)

\* the entry the parts stand for: each part recorded when it is there, a
\* size constraint when it has two entries or more
ExpectedEntry(parts) ==
    LET size == PartOfKind(parts, 1)
        class == PartOfKind(parts, 2)
        validators == PartOfKind(parts, 3)
        default == PartOfKind(parts, 4)
    IN Entity_Constraints(
           ExpectedName,
           IF size # <<>> /\ SizeEntries(size[1]) >= 2
           THEN [i \in 1..SizeEntries(size[1]) |-> Token(size[1].from + 2 * i - 1)]
           ELSE <<>>,
           IF class # <<>> THEN Identifier(class[1].from) ELSE None,
           IF validators # <<>> THEN <<Identifier(validators[1].from + 1)>> ELSE <<>>,
           IF default # <<>> THEN Number_Literal(default[1].from + 1) ELSE None)

\* the soft diagnostic of a size constraint was given
DimensionDiagnostic ==
    \E i \in 1..Len(parser.msgs) :
        parser.msgs[i] = "in MATLAB dimension constraints must contain at least two dimensions"

\* the size constraint p is the colon-only form (:)
ColonOnly(p) == SizeEntries(p) = 1 /\ KindAt(p.from + 1) = "COLON"

\* the size constraint p of the entry was diagnosed unless it has two
\* entries or more or is (:), and the entry was parsed on as without it
SizeAccepted(parts) ==
    /\ DimensionDiagnostic <=> ~(SizeEntries(parts[1]) >= 2 \/ ColonOnly(parts[1]))
    /\ Ok(parser) <=> InOrder(parts)
    /\ Ok(parser) => parser.rv = Special_Block(1, <<>>, <<ExpectedEntry(parts)>>)

\* C12: a size constraint is taken without a diagnostic exactly when it
\* has two or more entries or is the colon-only form (:); any other is
\* given the soft diagnostic, the entry and the block are parsed on and the
\* entry carries no dimension constraint.
C12_SizeAcceptedOrDiagnosed ==
    (pc = "done" /\ NameTaken /\ KindAt(NameEnd + 1) = "BRA") =>
        SizeAccepted(PartsFrom(NameEnd + 1))

\* x (:) was given the diagnostic, and the block was parsed to its end
C12_Witness ==
    /\ pc = "done"
    /\ toks = Tokens_colon_only
    /\ Ok(parser)
    /\ DimensionDiagnostic
    /\ parser.rv.kids[2].kids[1].kids[2].kids = <<>>

\* the entry was taken when its name is one of the block and its parts
\* are in order, and is the one the parts stand for
EntryInOrder(parts) ==
    /\ Ok(parser) <=> (NameTaken /\ InOrder(parts))
    /\ Ok(parser) => parser.rv = Special_Block(1, <<>>, <<ExpectedEntry(parts)>>)
    /\ toks = Tokens_validation_entry =>
          /\ Ok(parser)
          /\ parser.rv.kids[2].kids[1] =
                Entity_Constraints(Identifier(3), <<Token(5), Token(7)>>, Identifier(9),
                                   <<Identifier(11)>>, Number_Literal(14))

\* C13: an entry of a validation block is a name, then the optional size
\* constraint, class, validator list and default in that order, each
\* recorded only when present: an entry is taken exactly when its parts
\* are in that order and its name is a dotted name (void allowed) in an
\* arguments block, a plain identifier in a properties block;
\* x (1,:) double {mustBePositive} = 5 gives the sizes 1 and :, the class
\* double, one validator and the default 5.
C13_EntryOrder ==
    pc = "done" => EntryInOrder(PartsFrom(NameEnd + 1))

\* x (1,:) double {mustBePositive} = 5 was parsed
C13_Witness ==
    /\ pc = "done"
    /\ toks = Tokens_validation_entry
    /\ Ok(parser)
    /\ Len(parser.rv.kids[2].kids[1].kids[2].kids) = 2
    /\ parser.rv.kids[2].kids[1].kids[3].v = "double"
    /\ Len(parser.rv.kids[2].kids[1].kids[4].kids) = 1
    /\ parser.rv.kids[2].kids[1].kids[5].v = "5"

(***************************************************************************)
(* SpecLoop: scripts and functions of while, if, break, continue and       *)
(* expression statements                                                   *)
(***************************************************************************)
MaxLoopLines == 4

LoopLines ==
    {<<KEYWORD("while"), NUMBER("1"), NEWLINE>>,
     <<KEYWORD("if"), NUMBER("1"), NEWLINE>>,
     <<KEYWORD("end"), NEWLINE>>,
     <<KEYWORD("break"), NEWLINE>>,
     <<KEYWORD("continue"), NEWLINE>>,
     <<IDENTIFIER("x"), NEWLINE>>}

InitLoop ==
    /\ \E header \in {<<>>, <<KEYWORD("function"), IDENTIFIER("f"), NEWLINE>>} :
          \E body \in Texts(LoopLines, MaxLoopLines) : toks = header \o body
    /\ cfg = {}
    /\ in_class_directory = FALSE
    /\ Called("parse_file")

SpecLoop == InitLoop /\ [][Next]_vars

\* the constructs open before token i, read off the keywords: a while, an
\* if and a function open one, an end closes the last
RECURSIVE Open(_)
Open(i) ==
    LET after(o, t) ==
          CASE t = KEYWORD("while") -> Append(o, "loop")
            [] t \in {KEYWORD("for"), KEYWORD("parfor")} -> Append(o, "loop")
            [] t = KEYWORD("if") -> Append(o, "if")
            [] t = KEYWORD("switch") -> Append(o, "switch")
            [] t \in {KEYWORD("try"), KEYWORD("spmd")} -> Append(o, "block")
            [] t = KEYWORD("function") -> Append(o, "function")
            [] t = KEYWORD("end") /\ o # <<>> -> SubSeq(o, 1, Len(o) - 1)
            [] OTHER -> o
    IN IF i = 1 THEN <<>> ELSE after(Open(i - 1), toks[i - 1])

\* token i is inside a while of its function or script
InsideLoop(i) == \E j \in 1..Len(Open(i)) : Open(i)[j] = "loop"

\* the file is a function or a script of closed constructs, whatever its
\* break and continue statements are
WellFormed ==
    /\ \A i \in 1..Len(toks) :
          Open(i) = <<>> =>
             /\ toks[i] # KEYWORD("end")
             /\ (toks[1] = KEYWORD("function") /\ i > 1) => toks[i] = NEWLINE
    /\ Open(Len(toks) + 1) \in {<<>>, <<"function">>}

\* the statement of token i is in the tree n
StatementOf(n, i) ==
    \E st \in Nodes(n) :
       /\ st.t = i
       /\ st.k = CASE toks[i] = KEYWORD("break") -> "Break_Statement"
                   [] toks[i] = KEYWORD("continue") -> "Continue_Statement"
                   [] OTHER -> "Identifier"

\* the step of break or continue that reads its keyword
AtLoopKeyword == At("parse_break_statement", "start") \/ At("parse_continue_statement", "start")

\* the step gives the diagnostic of its keyword
LoopDiagnostic ==
    parser'.msgs = Append(parser.msgs, toks[parser.nt].value \o " must appear inside loop")

\* C14: break and continue give the non-fatal 'must appear inside loop'
\* diagnostic exactly when they are not inside a loop of their function or
\* script; in both cases parsing goes on, the statement node of break or
\* continue is returned, and the statements that follow are parsed: a file
\* is accepted or rejected whatever its break and continue statements are,
\* and each break, continue and expression statement of an accepted file is
\* in its tree.
C14_LoopDiagnosticNotFatal ==
    /\ [][AtLoopKeyword =>
            /\ Ok(parser')
            /\ pc' = "run"
            /\ in_context(parser, "loop") <=> InsideLoop(parser.nt)
            /\ IF InsideLoop(parser.nt) THEN parser'.msgs = parser.msgs ELSE LoopDiagnostic]_vars
    /\ [][(At("parse_break_statement", "eos") \/ At("parse_continue_statement", "eos")) =>
            /\ Ok(parser')
            /\ parser'.rv.k = IF Top.fn = "parse_break_statement"
                              THEN "Break_Statement" ELSE "Continue_Statement"]_vars
    /\ [](pc = "done" =>
            /\ Ok(parser) <=> WellFormed
            /\ Ok(parser) =>
                  \A i \in 1..Len(toks) :
                     toks[i] \in {KEYWORD("break"), KEYWORD("continue"), IDENTIFIER("x")} =>
                        StatementOf(cunit, i))

\* break outside a loop, then a statement: the diagnostic was given and
\* both statements are in the script
C14_Witness ==
    /\ pc = "done"
    /\ toks = <<KEYWORD("break"), NEWLINE, IDENTIFIER("x"), NEWLINE>>
    /\ Ok(parser)
    /\ parser.msgs[1] = "break must appear inside loop"
    /\ Len(cunit.kids[1].kids) = 2
    /\ cunit.kids[1].kids[1].k = "Break_Statement"

(***************************************************************************)
(* SpecInContext: in_context on every context stack of a bounded length,   *)
(* as break, continue and a function statement call it                     *)
(***************************************************************************)
MaxContext == 4

\* the kinds push_context takes
ContextKinds == {"function", "classdef", "loop", "if", "switch", "block"}

Contexts == UNION {[1..n -> ContextKinds] : n \in 0..MaxContext}

Tokens_function_f_end == <<KEYWORD("function"), IDENTIFIER("f"), NEWLINE, KEYWORD("end"), NEWLINE>>

InitInContext ==
    /\ toks \in {<<KEYWORD("break"), NEWLINE>>, <<KEYWORD("continue"), NEWLINE>>,
                 Tokens_function_f_end}
    /\ cfg = {}
    /\ in_class_directory = FALSE
    /\ \E context \in Contexts : parser = [MATLAB_Parser EXCEPT !.context = context]
    /\ cunit = None
    /\ calls = <<NewFrame("parse_statement")>>
    /\ pc = "run"
    /\ Outside

SpecInContext == InitInContext /\ [][Next]_vars

\* a frame of the kind is on the stack at or above its topmost function or
\* classdef frame
Visible(context, kind) ==
    \E i \in 1..Len(context) :
       /\ context[i] = kind
       /\ \A j \in (i + 1)..Len(context) : context[j] \notin {"function", "classdef"}

\* the step calls in_context
CallsInContext ==
    \/ AtLoopKeyword
    \/ At("parse_statement", "start") /\ peekv(parser, "KEYWORD", "function")

\* the step does what its method does when in_context is false
NotInContext ==
    IF At("parse_statement", "start")
    THEN ~Ok(parser') /\ parser'.err = "expected valid statement, found keyword 'function' instead"
    ELSE LoopDiagnostic

\* C15: in_context(kind) is true exactly when a frame of the kind is on
\* the stack at or above the topmost function or classdef frame, that
\* frame counting when it is of the kind: the frames below it are not
\* seen; the methods that call in_context act on that answer, and the call
\* leaves the stack as it was.
C15_InContextStopsAtFunction ==
    /\ [](\A kind \in ContextKinds :
            in_context(parser, kind) <=> Visible(parser.context, kind))
    /\ [][CallsInContext =>
            /\ parser'.context = parser.context
            /\ NotInContext <=>
                  ~Visible(parser.context,
                           IF At("parse_statement", "start") THEN "function" ELSE "loop")]_vars

\* break in a function nested in a function with a loop around it: the
\* loop is not seen and the diagnostic was given
C15_Witness ==
    /\ pc = "done"
    /\ toks = <<KEYWORD("break"), NEWLINE>>
    /\ parser.context = <<"function", "loop", "function">>
    /\ Ok(parser)
    /\ parser.msgs[1] = "break must appear inside loop"
    /\ parser.rv.k = "Break_Statement"

(***************************************************************************)
(* SpecScope: files of the headers of the constructs that open a scope,    *)
(* followed by end lines                                                   *)
(***************************************************************************)
MaxScopeLines == 3
MaxScopeEnds == 4

ScopeLines ==
    {<<KEYWORD("function"), IDENTIFIER("f"), NEWLINE>>,
     <<KEYWORD("classdef"), IDENTIFIER("c"), NEWLINE, KEYWORD("methods"), NEWLINE>>,
     <<KEYWORD("if"), NUMBER("1"), NEWLINE>>,
     <<KEYWORD("for"), IDENTIFIER("i"), ASSIGNMENT, NUMBER("1"), NEWLINE>>,
     <<KEYWORD("parfor"), IDENTIFIER("i"), ASSIGNMENT, NUMBER("1"), COLON, NUMBER("2"), NEWLINE>>,
     <<KEYWORD("while"), NUMBER("1"), NEWLINE>>,
     <<KEYWORD("switch"), NUMBER("1"), NEWLINE, KEYWORD("case"), NUMBER("1"), NEWLINE>>,
     <<KEYWORD("try"), NEWLINE>>,
     <<KEYWORD("spmd"), NEWLINE>>,
     <<KEYWORD("end"), NEWLINE>>}

InitScope ==
    /\ \E text \in Texts(ScopeLines, MaxScopeLines) :
          \E ends \in Texts({<<KEYWORD("end"), NEWLINE>>}, MaxScopeEnds) : toks = text \o ends
    /\ cfg = {}
    /\ in_class_directory = FALSE
    /\ Called("parse_file")

SpecScope == InitScope /\ [][Next]_vars

\* the methods that open a scope, and the kind each pushes
ScopeKind ==
    [parse_function_def |-> "function", parse_classdef |-> "classdef",
     parse_if_statement |-> "if", parse_for_statement |-> "loop",
     parse_parfor_statement |-> "loop", parse_while_statement |-> "loop",
     parse_switch_statement |-> "switch", parse_try_statement |-> "block",
     parse_spmd_statement |-> "block"]

\* the kinds of the constructs under way in the calls k that have pushed
\* theirs, the outermost first
RECURSIVE Pushed(_)
Pushed(k) ==
    IF k = <<>> THEN <<>>
    ELSE IF Head(k).fn \in DOMAIN ScopeKind /\ Head(k).at # "start"
    THEN <<ScopeKind[Head(k).fn]>> \o Pushed(Tail(k))
    ELSE Pushed(Tail(k))

\* the calls under the one under way
Callers == SubSeq(calls, 1, Len(calls) - 1)

\* the step opens a construct: its method starts
ScopeOpens == pc = "run" /\ Top.fn \in DOMAIN ScopeKind /\ Top.at = "start"

\* the step is the successful return of the method of a construct
ScopeReturns ==
    /\ pc = "run"
    /\ Top.fn \in DOMAIN ScopeKind
    /\ Ok(parser')
    /\ Len(calls') = Len(calls) - 1

\* C16: pop_context is never called on an empty stack: its ICE does not
\* occur; the stack holds the kinds of the constructs under way, so each
\* pop takes what its construct pushed: a construct starts on the stack of
\* its callers, pushes its kind, and returns with the stack of its callers,
\* who stay as they were while it is parsed; and the stack is empty when
\* parse_file has returned.
C16_PushPopPaired ==
    /\ [](parser.ice # "context is empty")
    /\ [](pc = "run" => parser.context = Pushed(calls))
    /\ [][(pc = "run" /\ pc' = "run" /\ Len(calls') >= Len(calls)) =>
            \A i \in 1..(Len(calls) - 1) : Pushed(<<calls'[i]>>) = Pushed(<<calls[i]>>)]_vars
    /\ [][ScopeOpens =>
            /\ parser.context = Pushed(Callers)
            /\ Ok(parser') => parser'.context = Append(parser.context, ScopeKind[Top.fn])]_vars
    /\ [][ScopeReturns => parser'.context = Pushed(Callers)]_vars
    /\ [](pc = "done" /\ Ok(parser) => parser.context = <<>>)

\* a file of a function with a parfor loop in it has been parsed, and the
\* stack is empty again
C16_Witness ==
    /\ pc = "done"
    /\ Ok(parser)
    /\ parser.context = <<>>
    /\ cunit.k = "Function_File"
    /\ \E n \in Nodes(cunit) : n.k = "Parallel_For_Statement"

\* the step is parse_statement on the keyword function
FunctionStatement == At("parse_statement", "start") /\ peekv(parser, "KEYWORD", "function")

\* the fatal error of a function statement under the context
FunctionStatementError(context) ==
    IF Visible(context, "function")
    THEN "nested function cannot appear inside " \o context[Len(context)]
    ELSE "expected valid statement, found keyword 'function' instead"

\* C17: a function keyword where a statement starts is parsed as a nested
\* function definition only when the top of the context stack is function;
\* under any other top, and with no function around it, it is a fatal error
\* and nothing is produced.
C17_NestedFunctionUnderFunction ==
    [][FunctionStatement =>
         IF parser.context # <<>> /\ parser.context[Len(parser.context)] = "function"
         THEN /\ Ok(parser')
              /\ pc' = "run"
              /\ calls'[Len(calls')].fn = "parse_function_def"
         ELSE /\ ~Ok(parser')
              /\ parser'.err = FunctionStatementError(parser.context)
              /\ pc' = "done"
              /\ cunit' = None]_vars

\* a function nested in a function has been parsed
C17_Witness ==
    /\ pc = "done"
    /\ Ok(parser)
    /\ toks = <<KEYWORD("function"), IDENTIFIER("f"), NEWLINE,
                KEYWORD("function"), IDENTIFIER("f"), NEWLINE,
                KEYWORD("end"), NEWLINE, KEYWORD("end"), NEWLINE>>
    /\ Len(l_nested_of(cunit.kids[1])) = 1

(***************************************************************************)
(* SpecEof: scripts whose last statement is of each form, with and         *)
(* without a terminator after it                                           *)
(***************************************************************************)
\* the statements before the last
MaxEofLines == 1

\* the simple statements, by a name of their form
SimpleStatements ==
    [assignment |-> <<IDENTIFIER("x"), ASSIGNMENT, NUMBER("1")>>,
     expression |-> <<IDENTIFIER("x")>>,
     command |-> <<IDENTIFIER("x"), CARRAY("abc")>>,
     list_assignment |-> <<A_BRA, IDENTIFIER("x"), A_KET, ASSIGNMENT, IDENTIFIER("y")>>,
     return |-> <<KEYWORD("return")>>,
     break |-> <<KEYWORD("break")>>,
     continue |-> <<KEYWORD("continue")>>,
     import |-> <<KEYWORD("import"), IDENTIFIER("a"), SELECTION, IDENTIFIER("b")>>,
     global |-> <<KEYWORD("global"), IDENTIFIER("x")>>,
     persistent |-> <<KEYWORD("persistent"), IDENTIFIER("x")>>,
     escape |-> <<BANG("ls")>>]

\* the statements closed by end
CompoundStatements ==
    [if |-> <<KEYWORD("if"), NUMBER("1"), NEWLINE, KEYWORD("end")>>,
     for |-> <<KEYWORD("for"), IDENTIFIER("i"), ASSIGNMENT, NUMBER("1"), NEWLINE, KEYWORD("end")>>,
     parfor |-> <<KEYWORD("parfor"), IDENTIFIER("i"), ASSIGNMENT, NUMBER("1"), COLON,
                  NUMBER("2"), NEWLINE, KEYWORD("end")>>,
     while |-> <<KEYWORD("while"), NUMBER("1"), NEWLINE, KEYWORD("end")>>,
     switch |-> <<KEYWORD("switch"), NUMBER("1"), NEWLINE, KEYWORD("case"), NUMBER("1"),
                  NEWLINE, KEYWORD("end")>>,
     try |-> <<KEYWORD("try"), NEWLINE, KEYWORD("end")>>,
     spmd |-> <<KEYWORD("spmd"), NEWLINE, KEYWORD("end")>>]

LastStatements ==
    {SimpleStatements[form] : form \in DOMAIN SimpleStatements}
    \cup {CompoundStatements[form] : form \in DOMAIN CompoundStatements}

\* what follows the last statement; <<>> is the end of the input
Terminations == {<<>>, <<NEWLINE>>, <<SEMICOLON>>, <<COMMA>>, <<SEMICOLON, NEWLINE>>}

InitEof ==
    /\ \E lines \in Texts({<<IDENTIFIER("x"), NEWLINE>>}, MaxEofLines) :
          \E last \in LastStatements : \E termination \in Terminations :
             toks = lines \o last \o termination
    /\ cfg = {}
    /\ in_class_directory = FALSE
    /\ Called("parse_file")

SpecEof == InitEof /\ [][Next]_vars

\* the input ends with the last token of a statement
EndsWithStatement == toks[Len(toks)].kind \notin {"NEWLINE", "SEMICOLON", "COMMA"}

\* the last statement of the input is st
LastStatementIs(st) ==
    /\ EndsWithStatement
    /\ Len(toks) >= Len(st)
    /\ SubSeq(toks, Len(toks) - Len(st) + 1, Len(toks)) = st

\* C18: every statement form takes the end of the input directly after its
\* last token as its termination: a file whose last statement is followed
\* by no terminator and no newline is parsed without a fatal error.
C18_EofTerminatesStatement ==
    (pc = "done" /\ EndsWithStatement) => Ok(parser)

\* the forms that do not take the end of the input: global, persistent and
\* the escape; with every other form the file is parsed
C18_EofButGlobalPersistentEscape ==
    (pc = "done" /\ EndsWithStatement) =>
        (Ok(parser) <=>
           ~\E form \in {"global", "persistent", "escape"} :
               LastStatementIs(SimpleStatements[form]))

\* global x at the end of the input has ended in a fatal error
C18_Witness ==
    /\ pc = "done"
    /\ toks = SimpleStatements["global"]
    /\ ~Ok(parser)
    /\ parser.err = "expected IDENTIFIER, reached EOF instead"

(***************************************************************************)
(* SpecEos: scripts of two statements, each followed by terminators and    *)
(* newlines, under both configurations                                     *)
(***************************************************************************)
\* the tokens between the two statements
MaxSeparator == 3

\* the statements that end in match_eos
EosStatements ==
    {<<IDENTIFIER("x"), ASSIGNMENT, NUMBER("1")>>,
     <<IDENTIFIER("x")>>,
     <<KEYWORD("return")>>,
     <<KEYWORD("persistent"), IDENTIFIER("x")>>}

\* a terminator, then terminators and newlines
Separators ==
    {<<first>> \o rest :
        first \in {SEMICOLON, COMMA},
        rest \in UNION {[1..n -> {SEMICOLON, COMMA, NEWLINE}] : n \in 0..(MaxSeparator - 1)}}

InitEos ==
    /\ \E st1, st2 \in EosStatements : \E sep \in Separators :
          \E last \in {<<SEMICOLON>>, <<COMMA, COMMA>>, <<SEMICOLON, NEWLINE>>} :
             toks = st1 \o sep \o st2 \o last
    /\ cfg \in Configurations
    /\ in_class_directory = FALSE
    /\ Called("parse_file")

SpecEos == InitEos /\ [][Next]_vars

\* the first token of a statement from token i on
RECURSIVE StatementFrom(_)
StatementFrom(i) ==
    IF i > Len(toks) \/ toks[i].kind \notin {"SEMICOLON", "COMMA", "NEWLINE"} THEN i
    ELSE StatementFrom(i + 1)

\* the number of tokens of the statement that starts with token p
StatementLen(p) ==
    CASE toks[p] = KEYWORD("return") -> 1
      [] toks[p] = KEYWORD("persistent") -> 2
      [] p < Len(toks) /\ toks[p + 1] = ASSIGNMENT -> 3
      [] OTHER -> 1

\* the node of the statement that starts with token p: its tokens alone
\* tell it
StatementAt(p) ==
    CASE toks[p] = KEYWORD("return") -> Return_Statement(p)
      [] toks[p] = KEYWORD("persistent") -> Persistent_Statement(p, <<Identifier(p + 1)>>)
      [] p < Len(toks) /\ toks[p + 1] = ASSIGNMENT ->
           Simple_Assignment_Statement(p + 1, Identifier(p), Number_Literal(p + 2))
      [] OTHER -> Naked_Expression_Statement(Identifier(p))

\* the statements of the script, from its first and its second statement
\* at token p
StatementsWith(p) == Sequence_Of_Statements(<<StatementAt(1), StatementAt(p)>>)

\* C19: the terminators of a statement never change the tree: however many
\* commas and semicolons (at least one) follow a statement, and whether the
\* end_of_statements rule is active or not, the statements of the script
\* are the nodes of their own tokens; diagnostics and fixes alone differ.
C19_TerminatorsKeepTree ==
    pc = "done" =>
        /\ Ok(parser)
        /\ cunit = Script_File(StatementsWith(StatementFrom(1 + StatementLen(1))), <<>>)

\* x = 1 ;,; x ; under the active rule: the extra terminators were
\* reported and marked for deletion, and the script has its two statements
C19_Witness ==
    /\ pc = "done"
    /\ cfg = {}
    /\ toks = <<IDENTIFIER("x"), ASSIGNMENT, NUMBER("1"), SEMICOLON, COMMA, SEMICOLON,
                IDENTIFIER("x"), SEMICOLON>>
    /\ \E i \in 1..Len(parser.msgs) : parser.msgs[i] = "use only one statement terminator"
    /\ [t |-> 5, key |-> "delete", value |-> TRUE] \in parser.fix
    /\ Len(cunit.kids[1].kids) = 2

(***************************************************************************)
(* SpecTerm: parse_file on the token sequences of matrices and cells; the  *)
(* parse stays for ever in a loop that takes no token                      *)
(***************************************************************************)
MaxTermLen == 4

\* the opening brackets of a token sequence
MaxTermOpen == 2

TermAlphabet ==
    {M_BRA, M_KET, C_BRA, C_KET, NUMBER("1"), IDENTIFIER("x"), COMMA, SEMICOLON, NEWLINE}

InitTerm ==
    /\ \E n \in 0..MaxTermLen : toks \in [1..n -> TermAlphabet]
    /\ Cardinality({i \in 1..Len(toks) : toks[i].kind \in {"M_BRA", "C_BRA"}}) <= MaxTermOpen
    /\ cfg = {}
    /\ in_class_directory = FALSE
    /\ Called("parse_file")

SpecTerm == InitTerm /\ [][Next]_vars

\* C20: parse_file terminates on every finite token sequence, with a
\* returned compilation unit or a fatal error: no loop of the parser goes
\* on without taking a token (a parse in such a loop never returns and
\* never raises).
C20_ParseFileTerminates == pc # "looping"

\* the only loop that goes on for ever is the loop of rows of a matrix or
\* a cell, before the closing bracket of the other kind or, after a row
\* that such a bracket has ended, before any token that ends no loop of rows
C20_LoopsOnlyInRows ==
    pc = "looping" =>
        /\ Top.fn \in {"parse_expression", "parse_name"}
        /\ \E i \in 1..Len(toks) :
              /\ toks[i].kind \in {"M_BRA", "C_BRA"}
              /\ \E j \in (i + 1)..Len(toks) :
                    toks[j].kind = (IF toks[i].kind = "M_BRA" THEN "C_KET" ELSE "M_KET")

\* [ } : parse_matrix is in its loop of rows for ever
C20_Witness ==
    /\ pc = "looping"
    /\ toks = <<M_BRA, C_KET>>
    /\ parser.nt = 2
    /\ parser.looping
(***************************************************************************)
(* SpecIce: scripts of one for or parfor loop, over the forms of the loop  *)
(* expression                                                              *)
(***************************************************************************)
\* the longest loop expression, in tokens
MaxIceExpr == 5

IceRanges ==
    {<<NUMBER("1"), COLON, NUMBER("2")>>,
     <<NUMBER("1"), COLON, NUMBER("2"), COLON, NUMBER("3")>>,
     <<BRA, NUMBER("1"), COLON, NUMBER("2"), KET>>,
     <<NUMBER("1"), COLON, NUMBER("2"), Tok("OPERATOR", "+"), NUMBER("1")>>}

IceOthers ==
    {<<NUMBER("1")>>,
     <<IDENTIFIER("x")>>,
     <<M_BRA, NUMBER("1"), M_KET>>,
     <<NUMBER("1"), Tok("OPERATOR", "+"), NUMBER("2")>>}

IceExprs == {e \in IceRanges \cup IceOthers : Len(e) <= MaxIceExpr}

\* the script: the loop with its keyword, its assignment (in brackets or
\* not, with the workers of parfor or not), its body and its end
IceText(kw, bracketed, workers, e, body) ==
    <<KEYWORD(kw)>>
    \o (IF bracketed THEN <<BRA>> ELSE <<>>)
    \o <<IDENTIFIER("i"), ASSIGNMENT>> \o e
    \o (IF bracketed /\ workers THEN <<COMMA, NUMBER("2")>> ELSE <<>>)
    \o (IF bracketed THEN <<KET>> ELSE <<>>)
    \o <<NEWLINE>> \o body \o <<KEYWORD("end"), NEWLINE>>

IceBodies == {<<>>, <<IDENTIFIER("x"), NEWLINE>>}

InitIce ==
    /\ \E kw \in {"for", "parfor"}, bracketed \in BOOLEAN, workers \in BOOLEAN :
          \E e \in IceExprs, body \in IceBodies :
             toks = IceText(kw, bracketed, workers, e, body)
    /\ cfg = {}
    /\ in_class_directory = FALSE
    /\ Called("parse_file")

SpecIce == InitIce /\ [][Next]_vars

\* the reasons of the ICEs the parser raises
IceReasons ==
    {"context is empty", "impossible path", "logic error", "parfor range is not a range"}

\* C21: no token sequence makes the parser raise an ICE: a malformed input
\* ends in a fatal syntax error or in a diagnostic (a parfor whose loop
\* expression is not a range included).
C21_NoICE == parser.ice \notin IceReasons

\* the ICE is raised by the parfor loops whose expression is not a range
\* node, and by no other loop
C21_ICEOfParforWithoutRange ==
    \A kw \in {"for", "parfor"}, bracketed \in BOOLEAN, workers \in BOOLEAN :
       \A e \in IceExprs, body \in IceBodies :
          (pc = "done" /\ toks = IceText(kw, bracketed, workers, e, body)) =>
             /\ parser.ice \in IceReasons <=>
                   /\ kw = "parfor"
                   /\ e \in IceOthers
             /\ parser.ice \in IceReasons => parser.ice = "parfor range is not a range"

\* parfor i = 1 : the parse is over with the ICE and no compilation unit
C21_Witness ==
    /\ pc = "done"
    /\ toks = IceText("parfor", FALSE, FALSE, <<NUMBER("1")>>, <<>>)
    /\ parser.ice = "parfor range is not a range"
    /\ parser.err = ""
    /\ cunit = None
(***************************************************************************)
(* SpecStr: an expression is parsed, the tree is rendered with __str__,    *)
(* and the text is parsed again                                            *)
(***************************************************************************)
\* the longest token sequence between brackets, and the longest without
MaxStrInner == 3
MaxStrLen == 4

\* the opening brackets in an input
MaxStrOpen == 2

StrAlphabet ==
    {NUMBER("1"), IDENTIFIER("f"), BRA, KET, COLON, COMMA, OPERATOR("-"), OPERATOR("'")}

StrSeqs(max) == UNION {[1..n -> StrAlphabet] : n \in 0..max}

\* the token sequences up to MaxStrLen and, to have a range or a sum as
\* an operand, those of a bracket with an operator before or after it
StrInputs ==
    StrSeqs(MaxStrLen)
    \cup {pre \o <<BRA>> \o inner \o <<KET>> \o post :
            pre \in {<<>>, <<OPERATOR("-")>>, <<NUMBER("1"), OPERATOR("-")>>},
            inner \in StrSeqs(MaxStrInner),
            post \in {<<>>, <<OPERATOR("-"), NUMBER("1")>>, <<COLON, NUMBER("1")>>,
                      <<OPERATOR("'")>>}}

InitStr ==
    /\ toks \in StrInputs
    /\ Cardinality({i \in 1..Len(toks) : toks[i] = BRA}) <= MaxStrOpen
    /\ Constructed

\* the items of a sequence of token sequences, with sep between them
RECURSIVE Join(_, _)
Join(items, sep) ==
    IF items = <<>> THEN <<>>
    ELSE IF Len(items) = 1 THEN items[1]
    ELSE items[1] \o sep \o Join(Tail(items), sep)

\* str(n): the tokens of the text that __str__ gives for the node n
RECURSIVE Str(_)
Str(n) ==
    LET arguments(open, close) ==
          IF Len(n.kids) > 1
          THEN Str(n.kids[1]) \o <<open>>
               \o Join([i \in 1..(Len(n.kids) - 1) |-> Str(n.kids[i + 1])], <<COMMA>>)
               \o <<close>>
          ELSE Str(n.kids[1])
    IN CASE n.k = "Identifier" -> <<IDENTIFIER(n.v)>>
         [] n.k = "Number_Literal" -> <<NUMBER(n.v)>>
         [] n.k = "Reshape" -> <<COLON>>
         [] n.k = "Reference" -> arguments(BRA, KET)
         [] n.k = "Cell_Reference" -> arguments(C_BRA, C_KET)
         [] n.k = "Unary_Operation" -> <<OPERATOR(n.v)>> \o Str(n.kids[1])
         [] n.k = "Binary_Operation" ->
              <<BRA>> \o Str(n.kids[1]) \o <<OPERATOR(n.v)>> \o Str(n.kids[2]) \o <<KET>>
         [] n.k = "Range_Expression" ->
              IF n.kids[3] # None
              THEN Str(n.kids[1]) \o <<COLON>> \o Str(n.kids[3]) \o <<COLON>> \o Str(n.kids[2])
              ELSE Str(n.kids[1]) \o <<COLON>> \o Str(n.kids[2])
         [] OTHER -> <<>>

\* the first parse has accepted the whole input
Accepted == pc = "done" /\ parser.ok /\ parser.nt = 0

\* the tree of an accepted expression is rendered and a new parser is
\* constructed on the tokens of the text; cunit keeps the first tree
Render ==
    /\ Accepted
    /\ cunit = None
    /\ toks' = Str(parser.rv)
    /\ cunit' = parser.rv
    /\ parser' = MATLAB_Parser'
    /\ pc' = "expression"
    /\ UNCHANGED <<cfg, in_class_directory, calls>>
    /\ UNCHANGED outside

NextStr == ParseExpression \/ Render

SpecStr == InitStr /\ [][NextStr]_vars

\* the kinds, the values and the operands of a tree, without its tokens
RECURSIVE Shape(_)
Shape(n) == [k |-> n.k, v |-> n.v, kids |-> [i \in 1..Len(n.kids) |-> Shape(n.kids[i])]]

\* the text of the first tree has been parsed
Reparsed == pc = "done" /\ cunit # None

\* C22: for every expression the parser accepts, the text that __str__
\* gives for the tree is accepted too and its tree has the same node kinds
\* and the same operands (postfix transpose, a call without arguments and
\* a range as an operand of a binary operator included).
C22_RoundTrip ==
    Reparsed => /\ parser.ok
                /\ parser.nt = 0
                /\ Shape(parser.rv) = Shape(cunit)

\* a postfix operation, written by __str__ before its operand
Postfix(n) == n.k = "Unary_Operation" /\ n.v \in {"'", ".'"}

\* a reference without arguments, written by __str__ as its name
EmptyReference(n) == n.k \in {"Reference", "Cell_Reference"} /\ Len(n.kids) = 1

\* a range that is an operand of a range or of an operation, written by
\* __str__ without brackets
Unbracketed(n) ==
    /\ n.k \in {"Binary_Operation", "Range_Expression", "Unary_Operation"}
    /\ \E i \in 1..Len(n.kids) : n.kids[i].k = "Range_Expression"

\* the round trip gives the tree back but for the trees with a postfix
\* operation, a reference without arguments or an operand without brackets
C22_RoundTripButThree ==
    Reparsed =>
       (C22_RoundTrip <=>
           \A n \in Nodes(cunit) : ~Postfix(n) /\ ~EmptyReference(n) /\ ~Unbracketed(n))

\* f() is accepted, rendered as f and parsed again as an identifier
C22_Witness ==
    /\ Reparsed
    /\ toks = <<IDENTIFIER("f")>>
    /\ cunit = Reference(Identifier(1), <<>>)
    /\ parser.rv.k = "Identifier"
(***************************************************************************)
(* SpecUid: two threads of one process create nodes.  Node.__init__ is     *)
(* NODE_UID[0] += 1 followed by self.uid = NODE_UID[0]: the interpreter    *)
(* reads the counter, writes the sum, and reads the counter again, and     *)
(* another thread may run between any two of these.                        *)
(***************************************************************************)
\* the nodes each thread creates
MaxNodes == 2

InitUid ==
    /\ toks = <<>>
    /\ Constructed

\* NODE_UID[0] += 1, the read of the counter
Load(t) ==
    /\ threads[t].at = "load"
    /\ Len(threads[t].uids) < MaxNodes
    /\ threads' = [threads EXCEPT ![t].at = "store", ![t].value = NODE_UID]
    /\ UNCHANGED <<NODE_UID, autofix, rewritten>>

\* NODE_UID[0] += 1, the write of the sum
Store(t) ==
    /\ threads[t].at = "store"
    /\ NODE_UID' = threads[t].value + 1
    /\ threads' = [threads EXCEPT ![t].at = "uid"]
    /\ UNCHANGED <<autofix, rewritten>>

\* self.uid = NODE_UID[0]
SetUid(t) ==
    /\ threads[t].at = "uid"
    /\ threads' = [threads EXCEPT ![t].at = "load", ![t].uids = Append(@, NODE_UID)]
    /\ UNCHANGED <<NODE_UID, autofix, rewritten>>

\* Node.__init__, a step of it in one of the threads
Node__init__ ==
    /\ \E t \in Threads : Load(t) \/ Store(t) \/ SetUid(t)
    /\ UNCHANGED <<toks, cfg, in_class_directory, parser, cunit, calls, pc>>

NextUid == Node__init__

SpecUid == InitUid /\ [][NextUid]_vars

\* the nodes created so far: the thread and the place in its sequence
Created == {c \in Threads \X (1..MaxNodes) : c[2] <= Len(threads[c[1]].uids)}

\* C23: when two parses run in threads of one process, every node created
\* by either gets an id different from that of every other node, under
\* every interleaving of the creations.
C23_UidsDistinct ==
    \A c \in Created, d \in Created :
       c # d => threads[c[1]].uids[c[2]] # threads[d[1]].uids[d[2]]

\* a thread that creates its nodes while no other thread is in
\* Node.__init__ gives them the ids that follow the counter, one by one
C23_UidsOfOneThread ==
    \A t \in Threads :
       (\A u \in Threads \ {t} : threads[u].at = "load" /\ threads[u].uids = <<>>) =>
          \A i \in 1..Len(threads[t].uids) : threads[t].uids[i] = i

\* both threads have added one to the counter before either has read its
\* id: the first node of each has the id 2
C23_Witness ==
    /\ threads[1].uids = <<2>>
    /\ threads[2].uids = <<2>>
    /\ NODE_UID = 2
(***************************************************************************)
(* SpecFile: files of empty lines, function headers, statements, class     *)
(* headers and end lines, in a class directory or not                      *)
(***************************************************************************)
MaxFileLines == 4

FileLines == FunLines \cup {<<NEWLINE>>}

InitFile ==
    /\ toks \in Texts(FileLines, MaxFileLines)
    /\ cfg = {}
    /\ in_class_directory \in BOOLEAN
    /\ Called("parse_file")

SpecFile == InitFile /\ [][Next]_vars

\* the first token that is no newline, 0 if there is none
RECURSIVE FirstToken(_)
FirstToken(i) ==
    IF i > Len(toks) THEN 0
    ELSE IF toks[i] = NEWLINE THEN FirstToken(i + 1)
    ELSE i

\* the variant the first token decides
Variant ==
    LET first == FirstToken(1)
    IN CASE first # 0 /\ toks[first] = KEYWORD("function") -> "Function_File"
         [] (first # 0 /\ toks[first] = KEYWORD("classdef")) \/ in_class_directory -> "Class_File"
         [] OTHER -> "Script_File"

\* the tokens of the nodes of a tree
TokensOf(n) == {m.t : m \in Nodes(n)} \ {0}

\* parse_file has returned a compilation unit
Returned == pc = "done" /\ cunit # None

\* C24: parse_file returns one compilation unit, of the variant that the
\* first token that is no newline decides: a function file when it is
\* function, else a class file when it is classdef or the file is in a
\* class directory, else a script file; in a script file every statement
\* of the top level is before every function; and a token left after the
\* unit is a fatal error, it is not dropped.
C24_OneUnitByFirstToken ==
    /\ Returned =>
          /\ parser.ok
          /\ cunit.k = Variant
          /\ parser.ct = 0 /\ parser.nt = 0
          /\ cunit.k = "Script_File" =>
                \A a \in TokensOf(cunit.kids[1]), b \in TokensOf(cunit.kids[2]) : a < b
    /\ (pc = "done" /\ ~parser.ok) => cunit = None
    /\ pc # "done" => cunit = None

\* x, then function f: a script file of one statement and one function
C24_Witness ==
    /\ Returned
    /\ toks = <<IDENTIFIER("x"), NEWLINE, KEYWORD("function"), IDENTIFIER("f"), NEWLINE>>
    /\ cunit.k = "Script_File"
    /\ Len(cunit.kids[1].kids) = 1
    /\ Len(cunit.kids[2].kids) = 1
(***************************************************************************)
(* SpecIf: scripts of if, elseif, else, switch, case, otherwise, end and   *)
(* expression statements                                                   *)
(***************************************************************************)
MaxIfLines == 4

IfLines ==
    {<<KEYWORD("if"), NUMBER("1"), NEWLINE>>,
     <<KEYWORD("elseif"), NUMBER("1"), NEWLINE>>,
     <<KEYWORD("else"), NEWLINE>>,
     <<KEYWORD("switch"), NUMBER("1"), NEWLINE>>,
     <<KEYWORD("case"), NUMBER("1"), NEWLINE>>,
     <<KEYWORD("otherwise"), NEWLINE>>,
     <<KEYWORD("end"), NEWLINE>>,
     <<IDENTIFIER("x"), NEWLINE>>}

InitIf ==
    /\ toks \in Texts(IfLines, MaxIfLines)
    /\ cfg = {}
    /\ in_class_directory = FALSE
    /\ Called("parse_file")

SpecIf == InitIf /\ [][Next]_vars

\* If_Statement.has_else with the first action in place of the last
has_else_of_first(n) == n.kids[1].v = "else"

\* self.has_else = actions[-1][0].value == "else"
has_else(n) == n.kids[Len(n.kids)].v = "else"

\* self.has_otherwise = l_options[-1][0].value == "otherwise"
has_otherwise(n) == n.kids[2].kids[Len(n.kids[2].kids)].v = "otherwise"

\* the action has no condition
Unconditional(n_action) == n_action.kids[1] = None

\* the actions are one at least and all but the last have a condition
ActionsGuarded(actions) ==
    /\ Len(actions) >= 1
    /\ \A i \in 1..(Len(actions) - 1) : ~Unconditional(actions[i])

\* the nodes the parser holds: those of the value of the last return and
\* those of the unit
Built == Nodes(parser.rv) \cup Nodes(cunit)

\* an else line with an elseif or else line after it, an otherwise line
\* with a case line after it
ElseThenCondition ==
    \E i \in 1..(Len(toks) - 2) :
       \/ /\ toks[i] = KEYWORD("else")
          /\ toks[i + 2] \in {KEYWORD("elseif"), KEYWORD("else")}
       \/ /\ toks[i] = KEYWORD("otherwise")
          /\ toks[i + 2] = KEYWORD("case")

\* C25: in every If statement and Switch statement the parser builds, the
\* actions are one at least and only the last can lack a condition; an
\* else is not followed by elseif or else, an otherwise not by case
\* (either is a fatal error); has_else and has_otherwise are true exactly
\* when the last action has no condition.
C25_OnlyLastActionUnconditional ==
    /\ \A n \in Built :
          /\ n.k = "If_Statement" =>
                /\ ActionsGuarded(n.kids)
                /\ has_else(n) <=> Unconditional(n.kids[Len(n.kids)])
          /\ n.k = "Switch_Statement" =>
                /\ ActionsGuarded(n.kids[2].kids)
                /\ has_otherwise(n) <=> Unconditional(n.kids[2].kids[Len(n.kids[2].kids)])
    /\ (pc = "done" /\ ElseThenCondition) => (cunit = None /\ parser.err # "")

\* if, elseif, else, end: three actions, the last without condition
C25_Witness ==
    /\ pc = "done"
    /\ toks = <<KEYWORD("if"), NUMBER("1"), NEWLINE, KEYWORD("elseif"), NUMBER("1"), NEWLINE,
                KEYWORD("else"), NEWLINE, KEYWORD("end"), NEWLINE>>
    /\ \E n \in Nodes(cunit) :
          /\ n.k = "If_Statement"
          /\ Len(n.kids) = 3
          /\ has_else(n)
          /\ Unconditional(n.kids[3])
(***************************************************************************)
(* SpecStyle: analyze of mh_style.py from the creation of the parser on,   *)
(* with autofix or without                                                 *)
(***************************************************************************)
MaxStyleLines == 3

StyleLines ==
    FunLines \cup {<<KEYWORD("parfor"), IDENTIFIER("i"), ASSIGNMENT, NUMBER("1"), NEWLINE>>}

InitStyle ==
    /\ toks \in Texts(StyleLines, MaxStyleLines)
    /\ cfg = {}
    /\ in_class_directory = FALSE
    /\ parser = MATLAB_Parser
    /\ cunit = None
    /\ calls = <<NewFrame("parse_file")>>
    /\ pc = "run"
    /\ NODE_UID = 0
    /\ threads = [t \in Threads |-> [at |-> "load", value |-> 0, uids |-> <<>>]]
    /\ autofix \in BOOLEAN
    /\ rewritten = FALSE

\* the file is written whatever the parse tree
autofixed_always(fix, parse_tree) == fix

\* if autofix: if not parse_tree: mh.error(..., fatal=False)
\*             else: with open(filename, "w") as fd: tbuf.replay(fd)
autofixed(fix, parse_tree) == fix /\ parse_tree # None

\* analyze after the call of parse_file: except Error sets parse_tree to
\* None; an ICE is no Error and leaves analyze; then the file is written
\* again or not
Analyze ==
    /\ pc = "done"
    /\ IF parser.ice # ""
       THEN /\ pc' = "raised"
            /\ UNCHANGED <<cunit, rewritten>>
       ELSE /\ pc' = "analyzed"
            /\ cunit' = IF parser.err # "" THEN None ELSE cunit
            /\ rewritten' = autofixed(autofix, cunit')
    /\ UNCHANGED <<toks, cfg, in_class_directory, parser, calls>>
    /\ UNCHANGED <<NODE_UID, threads, autofix>>

NextStyle == Step \/ Analyze

SpecStyle == InitStyle /\ [][NextStyle]_vars

\* C26: when the parse of a file ends in a fatal syntax error the driver
\* holds no parse tree and, in autofix mode, the file is not written again;
\* the file is written again only after a parse that completed without
\* fatal error.
C26_NoRewriteAfterParseError ==
    /\ (pc = "analyzed" /\ parser.err # "") => (cunit = None /\ ~rewritten)
    /\ rewritten => /\ pc = "analyzed"
                    /\ autofix
                    /\ parser.err = ""
                    /\ parser.ice = ""
                    /\ cunit # None

\* in autofix mode, a parse with a fatal error has been analyzed
C26_Witness ==
    /\ pc = "analyzed"
    /\ autofix
    /\ parser.err # ""
    /\ cunit = None
    /\ ~rewritten

\* the file of a parse without error is written again
C26_Rewritten == rewritten /\ parser.err = "" /\ cunit # None
(***************************************************************************)
(* SpecArgs: a name followed by brackets, braces, numbers and commas       *)
(***************************************************************************)
MaxArgsLen == 5

\* the opening brackets and braces in an input
MaxArgsOpen == 2

ArgsAlphabet == {NUMBER("1"), NUMBER("2"), BRA, KET, C_BRA, C_KET, COMMA}

InitArgs ==
    /\ toks \in {<<IDENTIFIER("f")>> \o rest :
                   rest \in UNION {[1..n -> ArgsAlphabet] : n \in 0..MaxArgsLen}}
    /\ Cardinality({i \in 1..Len(toks) : toks[i].kind \in {"BRA", "C_BRA"}}) <= MaxArgsOpen
    /\ Constructed

SpecArgs == InitArgs /\ [][NextExpr]_vars

\* the token i ends an expression and the token i + 1 starts one, with no
\* comma between them, and the parser has taken both
Juxtaposed(i) ==
    /\ i + 1 <= parser.ct
    /\ toks[i].kind \in {"NUMBER", "KET", "C_KET"}
    /\ toks[i + 1].kind \in {"NUMBER", "IDENTIFIER"}

\* C27: an argument list and a cell index list accept expressions
\* separated by commas only; two expressions that follow each other
\* without a comma are a fatal error and are not accepted as two arguments.
C27_ArgumentsSeparatedByCommas ==
    (pc = "done" /\ Ok(parser)) => \A i \in 1..(Len(toks) - 1) : ~Juxtaposed(i)

\* f(1 2) is accepted as a reference with the two arguments 1 and 2
C27_Witness ==
    /\ pc = "done"
    /\ Ok(parser)
    /\ toks = <<IDENTIFIER("f"), BRA, NUMBER("1"), NUMBER("2"), KET>>
    /\ parser.rv.k = "Reference"
    /\ Len(parser.rv.kids) = 3
    /\ parser.rv.kids[2].v = "1"
    /\ parser.rv.kids[3].v = "2"

\* f{1 2} is accepted as a cell reference with the two arguments 1 and 2
C27_CellWitness ==
    /\ pc = "done"
    /\ Ok(parser)
    /\ toks = <<IDENTIFIER("f"), C_BRA, NUMBER("1"), NUMBER("2"), C_KET>>
    /\ parser.rv.k = "Cell_Reference"
    /\ Len(parser.rv.kids) = 3
(***************************************************************************)
(* SpecFix: a statement followed by terminators and newlines, and by a     *)
(* second statement or not, under both configurations                      *)
(***************************************************************************)
MaxFixTerminators == 4

FixTerminators == UNION {[1..n -> {SEMICOLON, COMMA, NEWLINE}] : n \in 0..MaxFixTerminators}

InitFix ==
    /\ \E st \in EosStatements : \E sep \in FixTerminators :
          \E last \in {<<>>, <<IDENTIFIER("x")>>, <<IDENTIFIER("x"), NEWLINE>>} :
             toks = st \o sep \o last
    /\ cfg \in Configurations
    /\ in_class_directory = FALSE
    /\ Called("parse_file")

SpecFix == InitFix /\ [][Next]_vars

\* C28: when the end_of_statements rule is suppressed, match_eos leaves
\* the fix annotations of every token as they were: it writes no delete,
\* change_to_semicolon, add_semicolon_after or add_newline entry, for every
\* sequence of terminator tokens.
C28_SuppressedWritesNoFix ==
    ~active(cfg, "end_of_statements") => parser.fix = {}

\* what match_eos writes under the suppressed rule: delete entries only,
\* true on a newline that follows a newline of the same statement end,
\* false on the first comma or semicolon of a statement end without newline
C28_SuppressedWritesDeleteOnly ==
    ~active(cfg, "end_of_statements") =>
        \A h \in parser.fix :
           /\ h.key = "delete"
           /\ IF h.value THEN toks[h.t].kind = "NEWLINE"
              ELSE toks[h.t].kind \in {"SEMICOLON", "COMMA"}

\* x ; under the suppressed rule: the semicolon has the entry delete = False
C28_Witness ==
    /\ pc = "done"
    /\ ~active(cfg, "end_of_statements")
    /\ toks = <<IDENTIFIER("x"), SEMICOLON>>
    /\ parser.fix = {[t |-> 2, key |-> "delete", value |-> FALSE]}

\* a newline after a newline and a semicolon has the entry delete = True
C28_NewlineDeleted ==
    /\ pc = "done"
    /\ ~active(cfg, "end_of_statements")
    /\ \E h \in parser.fix : h.value /\ toks[h.t].kind = "NEWLINE"
(***************************************************************************)
(* SpecLook: the parser is constructed on a lexer output with comments,    *)
(* continuations and newlines, and next is called up to its end            *)
(***************************************************************************)
MaxLookLen == 6

\* a comment and a continuation of the lexer output
COMMENT == Tok("COMMENT", "% c")
CONTINUATION == Tok("CONTINUATION", "...")

LookAlphabet == {IDENTIFIER("x"), NEWLINE, COMMENT, CONTINUATION}

InitLook ==
    /\ toks \in UNION {[1..n -> LookAlphabet] : n \in 0..MaxLookLen}
    /\ cfg = {}
    /\ in_class_directory = FALSE
    /\ parser = __init__
    /\ cunit = None
    /\ calls = <<>>
    /\ pc = "new"
    /\ Outside

\* MATLAB_Parser(mh, lexer, cfg)
Construct ==
    /\ pc = "new"
    /\ parser' = MATLAB_Parser
    /\ pc' = "tokens"
    /\ UNCHANGED <<toks, cfg, in_class_directory, cunit, calls>>
    /\ UNCHANGED outside

\* self.next(), as match calls it, while a token is left to take
Advance ==
    /\ pc = "tokens"
    /\ parser.nt # 0
    /\ parser' = next(parser)
    /\ UNCHANGED <<toks, cfg, in_class_directory, cunit, calls, pc>>
    /\ UNCHANGED outside

NextLook == Construct \/ Advance

SpecLook == InitLook /\ [][NextLook]_vars

\* the kind of the token t, "" for None
KindOf(t) == IF t = 0 THEN "" ELSE toks[t].kind

\* none of ct, nt, nnt is a comment or a continuation, and no two
\* neighbours among them are both newlines
LookaheadClean ==
    pc = "tokens" =>
        /\ \A t \in {parser.ct, parser.nt, parser.nnt} :
              KindOf(t) \notin {"COMMENT", "CONTINUATION"}
        /\ ~(KindOf(parser.ct) = "NEWLINE" /\ KindOf(parser.nt) = "NEWLINE")
        /\ ~(KindOf(parser.nt) = "NEWLINE" /\ KindOf(parser.nnt) = "NEWLINE")

\* the token taken by a call of next and the one taken before it are not
\* both newlines
TakenApart == ~(KindOf(parser.ct) = "NEWLINE" /\ KindOf(parser'.ct) = "NEWLINE")

\* C29: after the constructor and after every call of next, none of ct,
\* nt, nnt is a COMMENT or CONTINUATION and no two adjacent tokens among
\* them are both NEWLINE; so the tokens the parser takes one after the
\* other are never both NEWLINE, for every lexer output.
C29_LookaheadInvariant == [](LookaheadClean) /\ [][TakenApart]_vars

\* newline, comment, newline, continuation, x: the parser has taken the
\* first newline and looks at x
C29_Witness ==
    /\ toks = <<NEWLINE, COMMENT, NEWLINE, CONTINUATION, IDENTIFIER("x")>>
    /\ pc = "tokens"
    /\ parser.ct = 1
    /\ parser.nt = 5
    /\ parser.nnt = 0
(***************************************************************************)
(* SpecFlat: files of function headers, end lines, statements and if       *)
(* lines                                                                   *)
(***************************************************************************)
MaxFlatLines == 5

FlatLines ==
    {<<KEYWORD("function"), IDENTIFIER("f"), NEWLINE>>,
     <<KEYWORD("end"), NEWLINE>>,
     <<IDENTIFIER("x"), NEWLINE>>,
     <<KEYWORD("if"), NUMBER("1"), NEWLINE>>}

InitFlat ==
    /\ toks \in Texts(FlatLines, MaxFlatLines)
    /\ cfg = {}
    /\ in_class_directory = FALSE
    /\ Called("parse_file")

SpecFlat == InitFlat /\ [][Next]_vars

\* every function on the chain that reorder_as_function_list walks from
\* n_fdef on has one nested function at most
RECURSIVE ChainOfSingles(_)
ChainOfSingles(n_fdef) ==
    /\ Len(l_nested_of(n_fdef)) <= 1
    /\ Len(l_nested_of(n_fdef)) = 1 => ChainOfSingles(l_nested_of(n_fdef)[1])

\* the loop of parse_function_list is left: l_functions is complete
AfterLoop ==
    /\ pc = "run"
    /\ Top.fn = "parse_function_list"
    /\ ~peekv(parser, "KEYWORD", "function")

\* l_functions where the loop of parse_function_list is left
l_functions_after_loop == IF Top.at = "start" THEN <<>> ELSE Append(Top.l, parser.rv)

\* C30: the two ICEs 'logic error' of the flattening of the function list
\* are not raised, whatever the tokens: where functions_require_end is
\* still false after the loop of parse_function_list, the list has one
\* function at most, and every function on the chain that
\* reorder_as_function_list walks has one nested function at most.
C30_LogicErrorUnreachable ==
    /\ parser.ice # "logic error"
    /\ (AfterLoop /\ ~parser.functions_require_end) =>
          /\ Len(l_functions_after_loop) <= 1
          /\ \A i \in 1..Len(l_functions_after_loop) :
                ChainOfSingles(l_functions_after_loop[i])

\* function f, function f, function f, x: the loop is left with one
\* function, whose chain of nested functions has three functions
C30_Witness ==
    /\ AfterLoop
    /\ ~parser.functions_require_end
    /\ toks = <<KEYWORD("function"), IDENTIFIER("f"), NEWLINE,
                KEYWORD("function"), IDENTIFIER("f"), NEWLINE,
                KEYWORD("function"), IDENTIFIER("f"), NEWLINE,
                IDENTIFIER("x"), NEWLINE>>
    /\ Len(l_functions_after_loop) = 1
    /\ Len(l_nested_of(l_functions_after_loop[1])) = 1
    /\ Len(l_nested_of(l_nested_of(l_functions_after_loop[1])[1])) = 1

\* the same file when parse_file has returned: the three functions are in
\* the list of the file, none with a nested function
C30_Flattened ==
    /\ pc = "done"
    /\ Ok(parser)
    /\ cunit.k = "Function_File"
    /\ Len(cunit.kids) = 3
    /\ \A i \in 1..3 : l_nested_of(cunit.kids[i]) = <<>>

====
